---------------------------- MODULE Spec2Model ----------------------------
(***************************************************************************)
(* Query routing and hybrid retrieval pipeline of the Valley Air chatbot:  *)
(* workflow.py (classifier, run_multiagent_workflow and its streaming      *)
(* twin), agents/query_context.py, agents/retrieval.py,                    *)
(* agents/synthesis.py and agents/air_quality_agent.py.                    *)
(*                                                                         *)
(* Text is a sequence of one-character strings, so that strip, splitlines, *)
(* lower and split are computed as Python computes them.  A Python dict is *)
(* a function whose domain is the set of keys present.  The external       *)
(* collaborators (language model, vector store, BM25 scorer, cross-encoder,*)
(* Elasticsearch, Open-Meteo tools) have a behaviour that is fixed for the *)
(* length of a run and is held in the variable ext.                        *)
(***************************************************************************)
EXTENDS Integers, Sequences, FiniteSets, TLC

VARIABLES
    docs_corpus,   \* workflow.py:70, the module-level corpus snapshot
    args,          \* the arguments of the two entry points
    ext,           \* the fixed behaviour of the external collaborators
    pc,            \* position of each request in its entry point
    state,         \* the `state` dict of each request
    local,         \* locals of the agent calls of each request
    events,        \* events the streaming generator has yielded so far
    cb_log,        \* calls received by callback_handler
    result,        \* return value of run_multiagent_workflow
    exc,           \* exception that left the entry point, if any
    calls,         \* how often each stage was invoked, per request
    node_out       \* what the graph node query_context returned (workflow.py:81)

vars == <<docs_corpus, args, ext, pc, state, local, events, cb_log, result, exc, calls,
          node_out>>

(***************************************************************************)
(* Bounds of the model.                                                    *)
(***************************************************************************)
MaxSegs == 3        \* segments in a classifier response
MaxQuerySegs == 3   \* segments in a user query
MaxVec == 3         \* semantic candidates returned by the vector retriever
MaxCorpus == 2      \* documents in the corpus snapshot
MaxScore == 2       \* cross-encoder scores are 0..MaxScore
MaxChunks == 2      \* fragments the model streams for one answer
MaxDocs == 2        \* documents in a state given to a synthesis agent
MaxExtras == 2      \* extra sources already in that state
MaxOver == 2            \* corpus documents beyond the 10 the lexical leg keeps

(***************************************************************************)
(* Python values.                                                          *)
(***************************************************************************)
NoneV == "<None>"          \* Python None where a string may stand
NoneIdx == -1              \* Python None where a chunk index may stand

Get(d, k, default) == IF k \in DOMAIN d THEN d[k] ELSE default
Put(d, k, v) == [x \in (DOMAIN d) \cup {k} |-> IF x = k THEN v ELSE d[x]]
Merge(d, e) == [x \in (DOMAIN d) \cup (DOMAIN e) |-> IF x \in DOMAIN e THEN e[x] ELSE d[x]]

Last(s) == s[Len(s)]

RECURSIVE Concat(_)
Concat(ss) == IF ss = <<>> THEN <<>> ELSE Head(ss) \o Concat(Tail(ss))

RECURSIVE SeqsUpTo(_, _)
SeqsUpTo(S, n) ==
    IF n = 0 THEN {<<>>}
    ELSE LET shorter == SeqsUpTo(S, n - 1)
         IN  shorter \cup {Append(s, x) : s \in shorter, x \in S}

(***************************************************************************)
(* str.strip, str.splitlines, str.lower, str.split                         *)
(***************************************************************************)
IsSpace(c) == c \in {" ", "\n", "\t"}
IsLineBreak(c) == c = "\n"

RECURSIVE LStrip(_)
LStrip(s) == IF s # <<>> /\ IsSpace(Head(s)) THEN LStrip(Tail(s)) ELSE s

RECURSIVE RStrip(_)
RStrip(s) ==
    IF s # <<>> /\ IsSpace(Last(s)) THEN RStrip(SubSeq(s, 1, Len(s) - 1)) ELSE s

Strip(s) == RStrip(LStrip(s))

\* str.splitlines(): a trailing line break opens no further line, "" has no line
RECURSIVE SplitLinesFrom(_, _)
SplitLinesFrom(s, cur) ==
    IF s = <<>> THEN (IF cur = <<>> THEN <<>> ELSE <<cur>>)
    ELSE IF IsLineBreak(Head(s)) THEN <<cur>> \o SplitLinesFrom(Tail(s), <<>>)
    ELSE SplitLinesFrom(Tail(s), Append(cur, Head(s)))

SplitLines(s) == SplitLinesFrom(s, <<>>)

LowerChar(c) ==
    CASE c = "A" -> "a"
      [] c = "Q" -> "q"
      [] c = "G" -> "g"
      [] OTHER -> c

Lower(s) == [i \in 1..Len(s) |-> LowerChar(s[i])]

\* faulty variant of Split: str.split(" "), every single space separates
RECURSIVE SplitOnSpaceFrom(_, _)
SplitOnSpaceFrom(s, cur) ==
    IF s = <<>> THEN <<cur>>
    ELSE IF Head(s) = " " THEN <<cur>> \o SplitOnSpaceFrom(Tail(s), <<>>)
    ELSE SplitOnSpaceFrom(Tail(s), Append(cur, Head(s)))

SplitOnSpace(s) == SplitOnSpaceFrom(s, <<>>)

\* str.split() without arguments: runs of whitespace separate, no empty word
RECURSIVE SplitFrom(_, _)
SplitFrom(s, cur) ==
    IF s = <<>> THEN (IF cur = <<>> THEN <<>> ELSE <<cur>>)
    ELSE IF IsSpace(Head(s))
         THEN (IF cur = <<>> THEN <<>> ELSE <<cur>>) \o SplitFrom(Tail(s), <<>>)
         ELSE SplitFrom(Tail(s), Append(cur, Head(s)))

Split(s) == SplitFrom(s, <<>>)

(***************************************************************************)
(* Literals of the program.                                                *)
(***************************************************************************)
AIR_QUALITY == <<"a", "i", "r", "_", "q", "u", "a", "l", "i", "t", "y">>
GENERAL == <<"g", "e", "n", "e", "r", "a", "l">>
SORRY == <<"S", "o", "r", "r", "y">>   \* "Sorry, I could not classify your query."


(***************************************************************************)
(* QueryClassifierTool.__call__, workflow.py:13-39                         *)
(***************************************************************************)
\* line 30: response.strip().splitlines()[0] raises IndexError on no line
ClassifierIndexError(response) == SplitLines(Strip(response)) = <<>>

\* line 30
ClassifierLabel(response) == Lower(Strip(SplitLines(Strip(response))[1]))

\* faulty variant of CoerceLabel: the label is stored as the model gave it
CoerceLabelIdentity(label) == label

\* faulty variant of CoerceLabel: an unexpected label is stored as "unknown"
CoerceLabelUnknown(label) ==
    IF label \notin {AIR_QUALITY, GENERAL} THEN <<"u", "n", "k", "n", "o", "w", "n">>
    ELSE label

\* lines 32-36
CoerceLabel(label) == IF label \notin {AIR_QUALITY, GENERAL} THEN GENERAL ELSE label

\* workflow.py:41-44
route_query(st) ==
    IF Get(st, "query_type", NoneV) = AIR_QUALITY THEN "air_quality_agent"
    ELSE "query_context"

(***************************************************************************)
(* QueryContextAgent, agents/query_context.py:58-93                        *)
(* A model response is [raises, wrap, body]: wrap says whether the body    *)
(* stands alone ("none"), inside a markdown fence or inside prose; body is *)
(* [type, obj], type one of "garbage", "array", "object".  json.loads      *)
(* accepts exactly an unwrapped body that is not garbage.                  *)
(***************************************************************************)
JsonLoadsRaises(response) == response.wrap # "none" \/ response.body.type = "garbage"

\* lines 66-72 and 81-87: any exception in the try block gives the fallback
ExpansionFallsBack(response) ==
    \/ JsonLoadsRaises(response)
    \/ response.body.type # "object"      \* data.get raises AttributeError

ParseExpansion(user_query, response) ==
    IF ExpansionFallsBack(response)
    THEN [rewrites |-> <<user_query>>, keywords |-> Split(user_query)]
    ELSE [rewrites |-> Get(response.body.obj, "rewrites", <<>>),
          keywords |-> Get(response.body.obj, "keywords", <<>>)]

\* line 88
ToolEvent(x) ==
    [type |-> "tool", tool |-> "QueryContextAgent",
     rewrites |-> x.rewrites, keywords |-> x.keywords]

\* faulty variant of QueryContextDoneEvent: the second event repeats the
\* first under a type of its own
QueryContextDoneEventRetyped(x) ==
    [type |-> "expansion", rewrites |-> x.rewrites, keywords |-> x.keywords]

\* line 92
QueryContextDoneEvent(x) ==
    [type |-> "query_context_done", rewrites |-> x.rewrites, keywords |-> x.keywords]

(***************************************************************************)
(* The language model, llm.py:7.  Its answer to a prompt is a sequence of  *)
(* fragments; invoke returns them joined, stream returns them one by one.  *)
(***************************************************************************)
LLMStream(template) == ext.llm[template]
LLMInvoke(template) == Concat(ext.llm[template])

(***************************************************************************)
(* AirQualityAgent.__call__, agents/air_quality_agent.py:14-91             *)
(* ext.aq = [loc_raises, location, geocode, data]: whether the location    *)
(* prompt's call throws; what the parsed location is ("error" when parsing *)
(* or a later call in the try block throws, "empty", "found"); what        *)
(* geocoding and validation say ("none", "outside", "inside"); whether     *)
(* get_air_quality returned data.                                          *)
(***************************************************************************)
AirQualityRaises(aq) == aq.loc_raises       \* line 24 is outside the try

AirQualityCall(st, aq) ==
    IF aq.location = "error" THEN Put(st, "needs_location", TRUE)          \* line 91
    ELSE IF aq.location = "empty" THEN Put(st, "needs_location", TRUE)     \* line 38
    ELSE IF aq.geocode = "inside" /\ aq.data = "data"
    THEN Merge(st, [answer |-> LLMInvoke("summary"),                       \* lines 77-84
                    air_quality_data |-> "summary",
                    air_quality_timeseries |-> "timeseries",
                    location |-> "geocoded",
                    sources |-> <<>>])
    ELSE IF aq.geocode = "outside"
    THEN Merge(st, [needs_location |-> TRUE, location_error |-> "outside"]) \* line 87
    ELSE Put(st, "needs_location", TRUE)                                   \* line 88

\* AirQualityAgent.stream, lines 97-117: the events it yields, in order
AirQualityEvents(res) ==
    IF Get(res, "needs_location", FALSE)
    THEN <<[type |-> "location_needed",
            message |-> Get(res, "location_error", "Please enter a city")]>>
    ELSE (IF Get(res, "air_quality_timeseries", NoneV) # NoneV
          THEN <<[type |-> "air_quality", data |-> res["air_quality_timeseries"]]>>
          ELSE <<>>)
         \o <<[type |-> "answer", content |-> Get(res, "answer", <<>>),
               sources |-> Get(res, "sources", <<>>)]>>

(***************************************************************************)
(* Candidates.  The vector retriever returns langchain Documents           *)
(* [shape, oid, page_content, metadata]; the corpus snapshot holds dicts   *)
(* [shape, oid, d] with d = {content, url, title} (workflow.py:67).  oid   *)
(* is the object's identity, what Python's id() and `is` see.              *)
(***************************************************************************)
TOP_K == 4          \* retrieval.py:43
BM25_TOP == 10      \* retrieval.py:20

Document(oid, content, metadata) ==
    [shape |-> "Document", oid |-> oid, page_content |-> content, metadata |-> metadata]

CorpusDict(oid, content, url, title) ==
    [shape |-> "dict", oid |-> oid, d |-> [content |-> content, url |-> url, title |-> title]]

\* retrieval.py:41, synthesis.py:40: page_content if the object has it, else ["content"]
ContentOf(doc) == IF doc.shape = "Document" THEN doc.page_content ELSE doc.d["content"]

Truthy(url) == url # NoneV /\ url # ""

Min(a, b) == IF a < b THEN a ELSE b
Take(s, k) == SubSeq(s, 1, Min(k, Len(s)))

(***************************************************************************)
(* sorted(range(len(scores)), key=lambda i: -scores[i])[:k],               *)
(* retrieval.py:20 and :43.  Python's sort is stable; indices are 0-based. *)
(***************************************************************************)
\* faulty variant of InsertByScore: an index goes before the equal scores
\* that precede it (an unstable sort)
RECURSIVE InsertByScoreUnstable(_, _, _)
InsertByScoreUnstable(sorted, i, scores) ==
    IF sorted = <<>> THEN <<i>>
    ELSE IF scores[Head(sorted) + 1] > scores[i + 1]
         THEN <<Head(sorted)>> \o InsertByScoreUnstable(Tail(sorted), i, scores)
         ELSE <<i>> \o sorted

RECURSIVE InsertByScore(_, _, _)
InsertByScore(sorted, i, scores) ==
    IF sorted = <<>> THEN <<i>>
    ELSE IF scores[Head(sorted) + 1] >= scores[i + 1]
         THEN <<Head(sorted)>> \o InsertByScore(Tail(sorted), i, scores)
         ELSE <<i>> \o sorted

RECURSIVE SortedFrom(_, _, _)
SortedFrom(sorted, i, scores) ==
    IF i >= Len(scores) THEN sorted
    ELSE SortedFrom(InsertByScore(sorted, i, scores), i + 1, scores)

\* faulty variant of TopIndices: the sort key is the score, not its negation
TopIndicesAscending(scores, k) ==
    LET sorted == SortedFrom(<<>>, 0, scores)
    IN  Take([j \in 1..Len(sorted) |-> sorted[Len(sorted) + 1 - j]], k)

\* lines 20 and 43: sorted(range(len(scores)), key=lambda i: -scores[i])[:k]
TopIndices(scores, k) == Take(SortedFrom(<<>>, 0, scores), k)

(***************************************************************************)
(* Fusion, retrieval.py:25-38.  all_docs is a dict: a sequence of          *)
(* [key, doc] entries in insertion order; assigning to a key that is       *)
(* present replaces the value in place.                                    *)
(***************************************************************************)
DictKeys(m) == {m[j].key : j \in 1..Len(m)}

DictSet(m, k, v) ==
    IF k \in DictKeys(m)
    THEN [j \in 1..Len(m) |-> IF m[j].key = k THEN [key |-> k, doc |-> v] ELSE m[j]]
    ELSE Append(m, [key |-> k, doc |-> v])

DictValues(m) == [j \in 1..Len(m) |-> m[j].doc]

\* lines 26-31; i is enumerate's 0-based position
\* faulty variant of VectorKey: the synthetic key does not depend on the position
VectorKeyNoIndex(doc, i) ==
    LET url == Get(doc.metadata, "url", NoneV)
    IN  IF Truthy(url) THEN url ELSE "vector_"

\* faulty variant of VectorKey: a URL-less candidate is filed under a page URL
VectorKeyDefaultUrl(doc, i) ==
    LET url == Get(doc.metadata, "url", NoneV)
    IN  IF Truthy(url) THEN url ELSE "https://valleyair.org/a"

VectorKey(doc, i) ==
    LET url == Get(doc.metadata, "url", NoneV)
    IN  IF Truthy(url) THEN url ELSE "vector_" \o ToString(i)

RECURSIVE FuseVector(_, _, _)
FuseVector(all_docs, vector_results, i) ==
    IF i >= Len(vector_results) THEN all_docs
    ELSE FuseVector(DictSet(all_docs, VectorKey(vector_results[i + 1], i),
                            vector_results[i + 1]),
                    vector_results, i + 1)

\* faulty variant of FuseOneBm25: a lexical candidate replaces the entry of its URL
FuseOneBm25Overwrite(all_docs, doc) ==
    LET url == Get(doc.d, "url", NoneV)
    IN  IF Truthy(url)
        THEN DictSet(all_docs, url, doc)
        ELSE DictSet(all_docs, "bm25_" \o ToString(doc.oid), doc)

\* lines 32-37
FuseOneBm25(all_docs, doc) ==
    LET url == Get(doc.d, "url", NoneV)
    IN  IF Truthy(url) /\ url \notin DictKeys(all_docs)
        THEN DictSet(all_docs, url, doc)
        ELSE IF ~Truthy(url)
        THEN DictSet(all_docs, "bm25_" \o ToString(doc.oid), doc)
        ELSE all_docs

RECURSIVE FuseBm25(_, _)
FuseBm25(all_docs, bm25_docs) ==
    IF bm25_docs = <<>> THEN all_docs
    ELSE FuseBm25(FuseOneBm25(all_docs, Head(bm25_docs)), Tail(bm25_docs))

Fuse(vector_results, bm25_docs) == FuseBm25(FuseVector(<<>>, vector_results, 0), bm25_docs)

(***************************************************************************)
(* Enrichment, retrieval.py:46-83.                                         *)
(***************************************************************************)
\* lines 48-55
DocUrl(doc) ==
    IF doc.shape = "Document"
    THEN (IF DOMAIN doc.metadata # {} THEN Get(doc.metadata, "url", NoneV) ELSE NoneV)
    ELSE Get(doc.d, "url", NoneV)

DocChunkIndex(doc) ==
    IF doc.shape = "Document"
    THEN (IF DOMAIN doc.metadata # {} THEN Get(doc.metadata, "chunk_index", NoneIdx)
          ELSE NoneIdx)
    ELSE Get(doc.d, "chunk_index", NoneIdx)

\* lines 56-76
EsQuery(doc) ==
    IF DocUrl(doc) # NoneV /\ DocChunkIndex(doc) # NoneIdx
    THEN [kind |-> "bool", url |-> DocUrl(doc), chunk_index |-> DocChunkIndex(doc),
          content |-> <<>>]
    ELSE IF DocUrl(doc) # NoneV
    THEN [kind |-> "term", url |-> DocUrl(doc), chunk_index |-> NoneIdx, content |-> <<>>]
    ELSE [kind |-> "match", url |-> NoneV, chunk_index |-> NoneIdx,
          content |-> ContentOf(doc)]

\* Elasticsearch: the records of the index that the query matches, best first
EsMatches(q, src) ==
    CASE q.kind = "bool" -> src.url = q.url /\ src.chunk_index = q.chunk_index
      [] q.kind = "term" -> src.url = q.url
      [] OTHER -> src.content = q.content

RECURSIVE EsHits(_, _)
EsHits(q, index) ==
    IF index = <<>> THEN <<>>
    ELSE (IF EsMatches(q, Head(index)) THEN <<Head(index)>> ELSE <<>>)
         \o EsHits(q, Tail(index))

\* line 77: search(..., size=1)
EsSearch(q) == Take(EsHits(q, ext.es_index), 1)

\* vectorstore.py:19-32, for one hit; oid is the identity of the new Document
\* (the hit's relevance score, which no stage reads, is left out of metadata)
CreateDocument(src, oid) ==
    Document(oid, src.content,
             [url |-> src.url, title |-> src.title, chunk_index |-> src.chunk_index])

\* faulty variant of EnrichOne: a candidate without a hit is replaced by an
\* empty Document
EnrichOneBlankMiss(doc, j) ==
    LET hits == EsSearch(EsQuery(doc))
    IN  IF hits # <<>> THEN CreateDocument(hits[1], 300 + j)
        ELSE Document(300 + j, <<>>, <<>>)

\* lines 47-83 for the doc at 1-based position j of top_docs
EnrichOne(doc, j) ==
    LET hits == EsSearch(EsQuery(doc))
    IN  IF hits # <<>> THEN CreateDocument(hits[1], 300 + j) ELSE doc

Enrich(top_docs) == [j \in 1..Len(top_docs) |-> EnrichOne(top_docs[j], j)]

\* faulty variant of TopDocs: every fused candidate goes on to enrichment
TopDocsAll(combined_docs, top_indices) == combined_docs

\* line 44
TopDocs(combined_docs, top_indices) ==
    [j \in 1..Len(top_indices) |-> combined_docs[top_indices[j] + 1]]

\* SpecializedRetrievalAgent.__call__, lines 15-86: every local at the return
RetrievalLocals(st) ==
    LET bm25_top_indices == TopIndices(ext.bm25_scores, BM25_TOP)
        bm25_docs == [j \in 1..Len(bm25_top_indices) |->
                        docs_corpus[bm25_top_indices[j] + 1]]
        vector_results == ext.vector_results
        all_docs == Fuse(vector_results, bm25_docs)
        combined_docs == DictValues(all_docs)
        scores == [j \in 1..Len(combined_docs) |->
                        ext.ce_score[ContentOf(combined_docs[j])]]
        top_indices == TopIndices(scores, TOP_K)
        top_docs == TopDocs(combined_docs, top_indices)
    IN  [bm25_docs |-> bm25_docs, vector_results |-> vector_results,
         all_docs |-> all_docs, combined_docs |-> combined_docs,
         scores |-> scores, top_indices |-> top_indices, top_docs |-> top_docs,
         es_queries |-> [j \in 1..Len(top_docs) |-> EsQuery(top_docs[j])],
         enriched_docs |-> Enrich(top_docs)]

(***************************************************************************)
(* Synthesis, agents/synthesis.py.                                         *)
(***************************************************************************)
SEP == <<"\n", "\n">>                 \* synthesis.py:40, the join separator
AQ_CONTEXT == <<"[", "A", "Q", "]">>  \* synthesis.py:42, the air-quality block

RECURSIVE Join(_, _)
Join(parts, sep) ==
    IF parts = <<>> THEN <<>>
    ELSE IF Len(parts) = 1 THEN parts[1]
    ELSE parts[1] \o sep \o Join(Tail(parts), sep)

\* lines 38-43 and 76-81
SynthesisContext(st) ==
    LET docs == Get(st, "retrieved_docs", <<>>)
        context == Join([j \in 1..Len(docs) |-> ContentOf(docs[j])], SEP)
    IN  IF Get(st, "air_quality_data", NoneV) # NoneV
        THEN AQ_CONTEXT \o <<"\n">> \o context
        ELSE context

\* lines 50-54: the dict the loop calls meta, before the placeholders
MetaOf(doc) ==
    IF doc.shape = "Document"
    THEN (IF DOMAIN doc.metadata # {} THEN doc.metadata ELSE << >>)
    ELSE [url |-> Get(doc.d, "url", ""), title |-> Get(doc.d, "title", "Untitled")]

\* lines 55-62: no candidate has a url or title attribute, so only the
\* placeholders apply
WithPlaceholders(meta) ==
    LET m1 == IF ~Truthy(Get(meta, "url", NoneV)) THEN Put(meta, "url", "No URL") ELSE meta
    IN  IF ~Truthy(Get(m1, "title", NoneV)) THEN Put(m1, "title", "Untitled") ELSE m1

\* faulty variant of AfterSourceLoop: the placeholders are also written into
\* a dict candidate
AfterSourceLoopInPlace(doc) ==
    IF doc.shape = "Document"
    THEN (IF DOMAIN doc.metadata # {}
          THEN [doc EXCEPT !.metadata = WithPlaceholders(doc.metadata)] ELSE doc)
    ELSE [doc EXCEPT !.d = WithPlaceholders(doc.d)]

\* line 52: meta is doc.metadata itself, so the assignments of lines 56-62
\* change the Document
AfterSourceLoop(doc) ==
    IF doc.shape = "Document" /\ DOMAIN doc.metadata # {}
    THEN [doc EXCEPT !.metadata = WithPlaceholders(doc.metadata)]
    ELSE doc

\* lines 47-66 and 84-103
RECURSIVE DocSources(_, _)
DocSources(docs, sources) ==
    IF docs = <<>> THEN sources
    ELSE LET meta == WithPlaceholders(MetaOf(Head(docs)))
             seen == {sources[j].url : j \in 1..Len(sources)}
         IN  DocSources(Tail(docs),
                        IF meta.url \notin seen THEN Append(sources, meta) ELSE sources)

\* lines 68-69
BlockingSources(st) ==
    DocSources(Get(st, "retrieved_docs", <<>>), <<>>) \o Get(st, "sources", <<>>)

\* lines 105-110; seen is the set seen_urls, which line 107 extends with
\* "No URL" for an extra that has no url
RECURSIVE ExtendUnseen(_, _, _)
ExtendUnseen(sources, seen, extras) ==
    IF extras = <<>> THEN sources
    ELSE LET url == Get(Head(extras), "url", "No URL")
         IN  IF url \notin seen
             THEN ExtendUnseen(Append(sources, Head(extras)), seen \cup {url}, Tail(extras))
             ELSE ExtendUnseen(sources, seen, Tail(extras))

StreamingSources(st) ==
    LET sources == DocSources(Get(st, "retrieved_docs", <<>>), <<>>)
    IN  ExtendUnseen(sources, {sources[j].url : j \in 1..Len(sources)},
                     Get(st, "sources", <<>>))

DocsAfterSources(st) ==
    LET docs == Get(st, "retrieved_docs", <<>>)
    IN  [j \in 1..Len(docs) |-> AfterSourceLoop(docs[j])]

\* the corpus snapshot after the loop: retrieval.py:21 hands the dicts of the
\* snapshot on as they are, so a retrieved dict is an object of the snapshot
\* and what the loop does to it is done to the snapshot
CorpusAfterSources(corpus, st) ==
    LET docs == Get(st, "retrieved_docs", <<>>)
        alias(i) == {j \in 1..Len(docs) :
                        docs[j].shape = "dict" /\ docs[j].oid = corpus[i].oid}
    IN  [i \in 1..Len(corpus) |->
            IF alias(i) = {} THEN corpus[i]
            ELSE AfterSourceLoop(docs[CHOOSE j \in alias(i) : TRUE])]

\* ResponseSynthesisAgent.__call__, lines 37-70
SynthesisCall(st) ==
    LET touched == IF "retrieved_docs" \in DOMAIN st
                   THEN Put(st, "retrieved_docs", DocsAfterSources(st)) ELSE st
    IN  Merge(touched, [answer |-> LLMInvoke("synthesis"), sources |-> BlockingSources(st)])

(***************************************************************************)
(* The two entry points, workflow.py:99-151.  Request "blocking" is a call *)
(* of run_multiagent_workflow, request "streaming" a generator made by     *)
(* run_multiagent_workflow_streaming that its consumer drains; both get    *)
(* the same query.                                                         *)
(***************************************************************************)
Requests == {"blocking", "streaming"}

\* faulty variant of WorkflowBranch: the label is not consulted
WorkflowBranchIgnoresLabel(st) == "general"

\* the if / elif / else of workflow.py:102-120 and :127-151
WorkflowBranch(st) ==
    IF Get(st, "query_type", NoneV) = AIR_QUALITY THEN "air_quality"
    ELSE IF Get(st, "query_type", NoneV) = GENERAL THEN "general"
    ELSE "unclassified"
Stages == {"classifier", "air_quality_agent", "query_context",
           "specialized_retrieval", "synthesis"}

Raise(r, e) ==
    /\ pc' = [pc EXCEPT ![r] = "raised"]
    /\ exc' = [exc EXCEPT ![r] = e]

Invoked(r, stage) == calls' = [calls EXCEPT ![r][stage] = @ + 1]

Yield(evs) == events' = events \o evs

CallbackCalls(cs) == IF args.callback_handler THEN cb_log \o cs ELSE cb_log

\* workflow.py:101 and :125, QueryClassifierTool.__call__
QueryClassifierTool(r) ==
    /\ pc[r] = "start"
    /\ Invoked(r, "classifier")
    /\ IF ext.cls.raises
       THEN Raise(r, "LLMError") /\ UNCHANGED state
       ELSE IF ClassifierIndexError(ext.cls.text)
       THEN Raise(r, "IndexError") /\ UNCHANGED state
       ELSE /\ state' = [state EXCEPT ![r] =
                            Put(@, "query_type", CoerceLabel(ClassifierLabel(ext.cls.text)))]
            /\ pc' = [pc EXCEPT ![r] = "classified"]
            /\ UNCHANGED exc
    /\ UNCHANGED <<docs_corpus, args, ext, local, events, cb_log, result, node_out>>

\* workflow.py:102-116 and :119-120: the branch of the blocking entry point,
\* up to and without the retrieval call
BlockingDispatch ==
    LET r == "blocking"
        branch == WorkflowBranch(state[r])
    IN
    /\ pc[r] = "classified"
    /\ IF branch = "air_quality"
       THEN /\ Invoked(r, "air_quality_agent")
            /\ IF AirQualityRaises(ext.aq)
               THEN Raise(r, "LLMError") /\ UNCHANGED <<state, local, result>>
               ELSE /\ state' = [state EXCEPT ![r] = AirQualityCall(@, ext.aq)]
                    /\ pc' = [pc EXCEPT ![r] = "air_done"]
                    /\ UNCHANGED <<exc, local, result>>
       ELSE IF branch = "general"
       THEN /\ Invoked(r, "query_context")
            /\ IF ext.exp.raises
               THEN Raise(r, "LLMError") /\ UNCHANGED <<state, local, result>>
               ELSE LET x == ParseExpansion(state[r]["user_query"], ext.exp)
                    IN  /\ state' = [state EXCEPT ![r] =
                                        Merge(@, [rewrites |-> x.rewrites,
                                                  keywords |-> x.keywords])]
                        /\ local' = [local EXCEPT ![r] = Put(@, "expansion", x)]
                        /\ pc' = [pc EXCEPT ![r] = "expanded"]
                        /\ UNCHANGED <<exc, result>>
       ELSE /\ result' = [answer |-> SORRY, sources |-> <<>>]
            /\ pc' = [pc EXCEPT ![r] = "returned"]
            /\ UNCHANGED <<exc, state, local, calls>>
    /\ UNCHANGED <<docs_corpus, args, ext, events, cb_log, node_out>>

\* workflow.py:117 and :147, SpecializedRetrievalAgent.__call__
SpecializedRetrievalAgent(r) ==
    /\ pc[r] = "expanded"
    /\ Invoked(r, "specialized_retrieval")
    /\ IF ext.bm25_raises
       THEN Raise(r, "ZeroDivisionError") /\ UNCHANGED <<state, local>>
       ELSE IF Get(state[r], "rewrites", <<>>) = <<>>
       THEN Raise(r, "IndexError") /\ UNCHANGED <<state, local>>        \* line 23
       ELSE IF ext.vector_raises
       THEN Raise(r, "StoreError") /\ UNCHANGED <<state, local>>
       ELSE LET l == RetrievalLocals(state[r])
            IN  IF ext.ce_raises /\ l.combined_docs = <<>>
                THEN Raise(r, "IndexError") /\ UNCHANGED <<state, local>>      \* line 42
                ELSE IF ext.es_raises /\ l.top_docs # <<>>
                THEN Raise(r, "StoreError") /\ UNCHANGED <<state, local>>
                ELSE /\ state' = [state EXCEPT ![r] =
                                     Put(@, "retrieved_docs", l.enriched_docs)]
                     /\ local' = [local EXCEPT ![r] = Put(@, "retrieval", l)]
                     /\ pc' = [pc EXCEPT ![r] = "retrieved"]
                     /\ UNCHANGED exc
    /\ UNCHANGED <<docs_corpus, args, ext, events, cb_log, result, node_out>>

\* workflow.py:104 and :118, ResponseSynthesisAgent.__call__, and the return
\* of line 121
BlockingSynthesis ==
    LET r == "blocking"
        res == SynthesisCall(state[r])
    IN
    /\ pc[r] \in {"air_done", "retrieved"}
    /\ Invoked(r, "synthesis")
    /\ state' = [state EXCEPT ![r] = res]
    /\ local' = [local EXCEPT ![r] = Put(@, "context", SynthesisContext(state[r]))]
    /\ result' = [answer |-> Get(res, "answer", <<>>), sources |-> Get(res, "sources", <<>>)]
    /\ pc' = [pc EXCEPT ![r] = "returned"]
    /\ docs_corpus' = CorpusAfterSources(docs_corpus, state[r])
    /\ UNCHANGED <<args, ext, events, cb_log, exc, node_out>>

\* workflow.py:127-136 and :150-151: the branch of the streaming entry
\* point, up to its first yield
StreamingDispatch ==
    LET r == "streaming"
        branch == WorkflowBranch(state[r])
    IN
    /\ pc[r] = "classified"
    /\ IF branch = "air_quality"
       THEN \* AirQualityAgent.stream, air_quality_agent.py:93-117
            /\ Invoked(r, "air_quality_agent")
            /\ cb_log' = CallbackCalls(<<[call |-> "on_tool_start", name |-> "AirQualityAgent"]>>)
            /\ IF AirQualityRaises(ext.aq)
               THEN Raise(r, "LLMError") /\ UNCHANGED <<local, events>>
               ELSE LET res == AirQualityCall(state[r], ext.aq)
                        evs == AirQualityEvents(res)
                    IN  /\ Yield(<<Head(evs)>>)
                        /\ local' = [local EXCEPT ![r] = Put(@, "pending", Tail(evs))]
                        /\ pc' = [pc EXCEPT ![r] = "air_stream"]
                        /\ UNCHANGED exc
       ELSE IF branch = "general"
       THEN \* QueryContextAgent.stream, query_context.py:76-91
            /\ Invoked(r, "query_context")
            /\ IF ext.exp.raises
               THEN Raise(r, "LLMError") /\ UNCHANGED <<local, events, cb_log>>
               ELSE LET x == ParseExpansion(state[r]["user_query"], ext.exp)
                    IN  /\ cb_log' = CallbackCalls(<<[call |-> "on_tool_start",
                                                      name |-> "QueryContextAgent"]>>)
                        /\ Yield(<<ToolEvent(x)>>)
                        /\ local' = [local EXCEPT ![r] = Put(@, "expansion", x)]
                        /\ pc' = [pc EXCEPT ![r] = "qc_tool"]
                        /\ UNCHANGED exc
       ELSE /\ Yield(<<[type |-> "done", sources |-> <<>>, answer |-> SORRY]>>)
            /\ pc' = [pc EXCEPT ![r] = "last_yield"]
            /\ UNCHANGED <<exc, local, cb_log, calls>>
    /\ UNCHANGED <<docs_corpus, args, ext, state, result, node_out>>

\* air_quality_agent.py:99-117: the consumer pulls the next event
AirStreamNext ==
    LET r == "streaming" IN
    /\ pc[r] = "air_stream"
    /\ IF local[r]["pending"] = <<>>
       THEN /\ pc' = [pc EXCEPT ![r] = "returned"]
            /\ UNCHANGED <<local, events>>
       ELSE /\ Yield(<<Head(local[r]["pending"])>>)
            /\ local' = [local EXCEPT ![r] = Put(@, "pending", Tail(@["pending"]))]
            /\ UNCHANGED pc
    /\ UNCHANGED <<docs_corpus, args, ext, state, cb_log, result, exc, calls, node_out>>

\* faulty variant of QueryContextResume1: the retrieval stage is started as
\* soon as the expander's last event exists, before the consumer asks for more
QueryContextResume1Eager ==
    LET r == "streaming" IN
    /\ pc[r] = "qc_tool"
    /\ Yield(<<QueryContextDoneEvent(local[r]["expansion"])>>)
    /\ Invoked(r, "specialized_retrieval")
    /\ local' = [local EXCEPT ![r] =
                    Merge(@, [rewrites |-> Last(events).rewrites,
                              keywords |-> Last(events).keywords])]
    /\ pc' = [pc EXCEPT ![r] = "qc_done"]
    /\ UNCHANGED <<docs_corpus, args, ext, state, cb_log, result, exc, node_out>>

\* workflow.py:137-140, then query_context.py:92-93
QueryContextResume1 ==
    LET r == "streaming" IN
    /\ pc[r] = "qc_tool"
    /\ Yield(<<QueryContextDoneEvent(local[r]["expansion"])>>)
    /\ local' = [local EXCEPT ![r] =
                    Merge(@, [rewrites |-> Last(events).rewrites,
                              keywords |-> Last(events).keywords])]
    /\ pc' = [pc EXCEPT ![r] = "qc_done"]
    /\ UNCHANGED <<docs_corpus, args, ext, state, cb_log, result, exc, calls, node_out>>

\* workflow.py:137-146: the expander's generator is exhausted
QueryContextResume2 ==
    LET r == "streaming" IN
    /\ pc[r] = "qc_done"
    /\ state' = [state EXCEPT ![r] =
                    Merge(@, [rewrites |-> Last(events).rewrites,
                              keywords |-> Last(events).keywords])]
    /\ cb_log' = CallbackCalls(<<[call |-> "on_tool_start",
                                  name |-> "SpecializedRetrievalAgent"]>>)
    /\ pc' = [pc EXCEPT ![r] = "expanded"]
    /\ UNCHANGED <<docs_corpus, args, ext, local, events, result, exc, calls, node_out>>

\* workflow.py:148, StreamingResponseSynthesisAgent.stream, synthesis.py:75-111
StreamingSynthesisStart ==
    LET r == "streaming" IN
    /\ pc[r] = "retrieved"
    /\ Invoked(r, "synthesis")
    /\ local' = [local EXCEPT ![r] =
                    Merge(@, [context |-> SynthesisContext(state[r]),
                              sources |-> StreamingSources(state[r]),
                              chunks |-> LLMStream("synthesis"),
                              answer |-> <<>>])]
    /\ state' = [state EXCEPT ![r] = Put(@, "retrieved_docs", DocsAfterSources(@))]
    /\ pc' = [pc EXCEPT ![r] = "tokens"]
    /\ docs_corpus' = CorpusAfterSources(docs_corpus, state[r])
    /\ UNCHANGED <<args, ext, events, cb_log, result, exc, node_out>>

\* faulty variant of SynthesisToken: with a callback handler the fragment
\* goes to the handler and is yielded as well
SynthesisTokenBoth ==
    LET r == "streaming"
        chunk == Head(local[r]["chunks"])
    IN
    /\ pc[r] = "tokens"
    /\ local[r]["chunks"] # <<>>
    /\ cb_log' = IF args.callback_handler
                 THEN Append(cb_log, [call |-> "on_llm_new_token", token |-> chunk])
                 ELSE cb_log
    /\ Yield(<<[type |-> "token", token |-> chunk]>>)
    /\ local' = [local EXCEPT ![r] =
                    Merge(@, [chunks |-> Tail(@["chunks"]), answer |-> @["answer"] \o chunk])]
    /\ UNCHANGED <<docs_corpus, args, ext, pc, state, result, exc, calls, node_out>>

\* synthesis.py:112-117, one round of the loop
SynthesisToken ==
    LET r == "streaming"
        chunk == Head(local[r]["chunks"])
    IN
    /\ pc[r] = "tokens"
    /\ local[r]["chunks"] # <<>>
    /\ IF args.callback_handler
       THEN /\ cb_log' = Append(cb_log, [call |-> "on_llm_new_token", token |-> chunk])
            /\ UNCHANGED events
       ELSE /\ Yield(<<[type |-> "token", token |-> chunk]>>)
            /\ UNCHANGED cb_log
    /\ local' = [local EXCEPT ![r] =
                    Merge(@, [chunks |-> Tail(@["chunks"]), answer |-> @["answer"] \o chunk])]
    /\ UNCHANGED <<docs_corpus, args, ext, pc, state, result, exc, calls, node_out>>

\* synthesis.py:119
SynthesisAnswer ==
    LET r == "streaming" IN
    /\ pc[r] = "tokens"
    /\ local[r]["chunks"] = <<>>
    /\ Yield(<<[type |-> "answer", content |-> local[r]["answer"],
                sources |-> local[r]["sources"]]>>)
    /\ pc' = [pc EXCEPT ![r] = "answered"]
    /\ UNCHANGED <<docs_corpus, args, ext, state, local, cb_log, result, exc, calls, node_out>>

\* synthesis.py:120
SynthesisDone ==
    LET r == "streaming" IN
    /\ pc[r] = "answered"
    /\ Yield(<<[type |-> "done", sources |-> local[r]["sources"]]>>)
    /\ pc' = [pc EXCEPT ![r] = "last_yield"]
    /\ UNCHANGED <<docs_corpus, args, ext, state, local, cb_log, result, exc, calls, node_out>>

\* the consumer pulls once more and the generator ends (StopIteration)
StreamingExhausted ==
    LET r == "streaming" IN
    /\ pc[r] = "last_yield"
    /\ pc' = [pc EXCEPT ![r] = "returned"]
    /\ UNCHANGED <<docs_corpus, args, ext, state, local, events, cb_log, result, exc, calls,
                   node_out>>

\* QueryContextAgent.__call__, query_context.py:61-75, as the graph node of
\* workflow.py:81 runs it on the initial state
QueryContextCall(st) ==
    LET x == ParseExpansion(st["user_query"], ext.exp)
    IN  [user_query |-> st["user_query"], rewrites |-> x.rewrites,
         keywords |-> x.keywords, messages |-> Get(st, "messages", <<>>)]

QueryContextNode ==
    /\ DOMAIN node_out = {}
    /\ node_out' = IF ext.exp.raises THEN [raised |-> "LLMError"]
                   ELSE QueryContextCall([user_query |-> args.user_query,
                                          messages |-> <<>>])
    /\ UNCHANGED <<docs_corpus, args, ext, pc, state, local, events, cb_log, result, exc,
                   calls>>

(***************************************************************************)
(* Inputs: queries, model responses, candidates, index contents.           *)
(***************************************************************************)
OZONE == <<"o", "z", "o", "n", "e">>
LEVELS == <<"l", "e", "v", "e", "l", "s">>
OZONE_LEVELS == OZONE \o <<" ">> \o LEVELS
BANANA == <<"b", "a", "n", "a", "n", "a">>
CAP_AIR_QUALITY == <<"A", "i", "r", "_", "Q", "u", "a", "l", "i", "t", "y">>

QuerySegs == {OZONE, LEVELS, <<" ">>}
Queries == {Concat(ss) : ss \in SeqsUpTo(QuerySegs, MaxQuerySegs)} \ {<<>>}

ClassifierSegs == {AIR_QUALITY, GENERAL, BANANA, CAP_AIR_QUALITY, <<" ">>, <<"\n">>}
ClassifierTexts == {Concat(ss) : ss \in SeqsUpTo(ClassifierSegs, MaxSegs)}

Says(text) == [raises |-> FALSE, text |-> text]
Throws == [raises |-> TRUE, text |-> <<>>]

R1 == <<"r", "1">>
R2 == <<"r", "2">>
R3 == <<"r", "3">>
K1 == <<"k", "1">>
K2 == <<"k", "2">>

JsonObjects ==
    {[rewrites |-> <<R1, R2, R3>>, keywords |-> <<K1, K2>>],
     [rewrites |-> <<R1, R2, R3>>],
     [keywords |-> <<K1, K2>>],
     << >>}
JsonBodies ==
    {[type |-> "garbage", obj |-> << >>], [type |-> "array", obj |-> << >>]}
    \cup {[type |-> "object", obj |-> o] : o \in JsonObjects}
ExpanderResponses ==
    {[raises |-> TRUE, wrap |-> "none", body |-> [type |-> "garbage", obj |-> << >>]]}
    \cup {[raises |-> FALSE, wrap |-> w, body |-> b] :
            w \in {"none", "fence", "prose"}, b \in JsonBodies}
GoodExpansion ==
    [raises |-> FALSE, wrap |-> "none",
     body |-> [type |-> "object",
               obj |-> [rewrites |-> <<R1, R2, R3>>, keywords |-> <<K1, K2>>]]]
GarbageExpansion ==
    [raises |-> FALSE, wrap |-> "none", body |-> [type |-> "garbage", obj |-> << >>]]

URL_A == "https://valleyair.org/a"
URL_B == "https://valleyair.org/b"
CA == <<"a">>
CB == <<"b">>
CC == <<"c">>
Contents == {CA, CB, CC}

\* what the vector retriever may return at one position
VectorTemplates ==
    <<[content |-> CA, metadata |-> [url |-> URL_A, title |-> "A", chunk_index |-> 0]],
      [content |-> CB, metadata |-> << >>],
      [content |-> CC, metadata |-> [url |-> URL_B, title |-> "", chunk_index |-> 0]],
      [content |-> CC, metadata |-> [url |-> "", title |-> "A", chunk_index |-> 2]],
      [content |-> CB, metadata |-> [url |-> URL_A, title |-> "A", chunk_index |-> 1]]>>

VectorResults(ts) ==
    [i \in 1..Len(ts) |-> Document(200 + i - 1, ts[i].content, ts[i].metadata)]

\* load_docs_corpus, workflow.py:62-68: one dict per hit of the index
CorpusTemplates ==
    <<[content |-> CA, url |-> "", title |-> ""],
      [content |-> CA, url |-> URL_A, title |-> "A"]>>

load_docs_corpus(ts) ==
    [i \in 1..Len(ts) |-> CorpusDict(100 + i - 1, ts[i].content, ts[i].url, ts[i].title)]

Range(f) == {f[x] : x \in DOMAIN f}
VectorLists == {VectorResults(ts) : ts \in SeqsUpTo(Range(VectorTemplates), MaxVec)}
Corpora == {load_docs_corpus(ts) : ts \in SeqsUpTo(Range(CorpusTemplates), MaxCorpus)}

\* the first n of a repeating pattern of templates
Cycle(templates, n) == [i \in 1..n |-> templates[((i - 1) % Len(templates)) + 1]]

EsFull ==
    <<[content |-> CA, url |-> URL_A, title |-> "A", chunk_index |-> 0],
      [content |-> CB, url |-> URL_A, title |-> "A", chunk_index |-> 1],
      [content |-> CC, url |-> URL_B, title |-> "B", chunk_index |-> 0]>>

\* BM25 scores that keep the corpus order, and scores that reverse it
Bm25Flat(n) == [i \in 1..n |-> 0]
Bm25Rising(n) == [i \in 1..n |-> i]

FX == <<"x">>
FY == <<"y">>
Fragments == {FX, FY}

AqScenarios ==
    {[loc_raises |-> TRUE, location |-> "error", geocode |-> "none", data |-> "none"],
     [loc_raises |-> FALSE, location |-> "error", geocode |-> "none", data |-> "none"],
     [loc_raises |-> FALSE, location |-> "empty", geocode |-> "none", data |-> "none"],
     [loc_raises |-> FALSE, location |-> "found", geocode |-> "none", data |-> "none"],
     [loc_raises |-> FALSE, location |-> "found", geocode |-> "outside", data |-> "none"],
     [loc_raises |-> FALSE, location |-> "found", geocode |-> "inside", data |-> "none"],
     [loc_raises |-> FALSE, location |-> "found", geocode |-> "inside", data |-> "data"]}

\* one behaviour of the collaborators; the families below vary parts of it
DefaultExt ==
    [cls |-> Says(GENERAL),
     exp |-> GoodExpansion,
     bm25_scores |-> <<>>, bm25_raises |-> FALSE,
     vector_results |-> VectorResults(Cycle(VectorTemplates, MaxVec)),
     vector_raises |-> FALSE,
     ce_score |-> [c \in Contents |-> 0], ce_raises |-> FALSE,
     es_index |-> EsFull, es_raises |-> FALSE,
     aq |-> [loc_raises |-> FALSE, location |-> "found", geocode |-> "inside",
             data |-> "data"],
     llm |-> [summary |-> <<FX>>, synthesis |-> <<FX, FY>>]]

DefaultCorpus == load_docs_corpus(Cycle(CorpusTemplates, MaxCorpus))

\* rank_bm25 on an empty corpus: the library either divides by zero or
\* returns no scores
Bm25RaisesOn(corpus) == IF corpus = <<>> THEN BOOLEAN ELSE {FALSE}

Setup(corpus, query, callback, e) ==
    /\ docs_corpus = corpus
    /\ args = [user_query |-> query, callback_handler |-> callback]
    /\ ext = [e EXCEPT !.bm25_scores =
                 IF Len(@) = Len(corpus) THEN @ ELSE Bm25Flat(Len(corpus))]
    /\ pc = [r \in Requests |-> "start"]
    /\ state = [r \in Requests |-> [user_query |-> query, messages |-> <<>>]]
    /\ local = [r \in Requests |-> << >>]
    /\ events = <<>>
    /\ cb_log = <<>>
    /\ result = << >>
    /\ exc = [r \in Requests |-> "none"]
    /\ calls = [r \in Requests |-> [st \in Stages |-> 0]]
    /\ node_out = << >>

LlmBehaviours ==
    {[summary |-> <<FX>>, synthesis |-> t] : t \in SeqsUpTo(Fragments, MaxChunks)}

\* the families of setups: each is a predicate on the initial state
ClassifierSetups ==
    \E c \in {Throws} \cup {Says(t) : t \in ClassifierTexts} :
        Setup(DefaultCorpus, OZONE_LEVELS, FALSE, [DefaultExt EXCEPT !.cls = c])

ExpanderSetups ==
    \E q \in Queries, cb \in BOOLEAN, x \in ExpanderResponses :
        Setup(DefaultCorpus, q, cb, [DefaultExt EXCEPT !.exp = x])

FusionSetups ==
    \E corpus \in Corpora, v \in VectorLists :
        \E b \in {Bm25Flat(Len(corpus)), Bm25Rising(Len(corpus))},
           z \in Bm25RaisesOn(corpus) :
            Setup(corpus, OZONE_LEVELS, FALSE,
                  [DefaultExt EXCEPT !.vector_results = v, !.bm25_scores = b,
                                     !.bm25_raises = z])

RerankSetups ==
    \E n \in 0..MaxVec, m \in 0..MaxCorpus :
        \E f \in [Contents -> 0..MaxScore], ix \in {<<>>, EsFull} :
            Setup(load_docs_corpus(Cycle(<<CorpusTemplates[1]>>, m)), OZONE_LEVELS, FALSE,
                  [DefaultExt EXCEPT !.vector_results = VectorResults(Cycle(VectorTemplates, n)),
                                     !.ce_score = f, !.es_index = ix,
                                     !.bm25_raises = (m = 0 /\ n = 0)])

\* the vector store or the embedding call of the semantic leg fails, or the
\* metadata store fails during enrichment
FailureSetups ==
    \E corpus \in Corpora, leg \in {"vector", "es"} :
        Setup(corpus, OZONE_LEVELS, FALSE,
              [DefaultExt EXCEPT !.vector_raises = (leg = "vector"),
                                 !.es_raises = (leg = "es")])

\* both legs return as many candidates as they can: vector_retriever has
\* k = 10 (vectorstore.py:52) and the lexical leg keeps the first 10
\* (retrieval.py:20); the candidates of a leg share one URL or have a URL each
VECTOR_K == 10
PageUrl(i) == "https://valleyair.org/p" \o ToString(i)

FullVector(shared) ==
    [i \in 1..VECTOR_K |->
        Document(200 + i - 1, Cycle(<<CA, CB, CC>>, VECTOR_K)[i],
                 [url |-> IF shared THEN URL_A ELSE PageUrl(i), title |-> "A",
                  chunk_index |-> i - 1])]

FullCorpus(shared) ==
    load_docs_corpus([i \in 1..BM25_TOP |->
                        [content |-> CA,
                         url |-> IF shared THEN URL_A ELSE PageUrl(VECTOR_K + i),
                         title |-> "A"]])

FullLegSetups ==
    \E sv \in BOOLEAN, sl \in BOOLEAN :
        Setup(FullCorpus(sl), OZONE_LEVELS, FALSE,
              [DefaultExt EXCEPT !.vector_results = FullVector(sv)])

\* no candidate in either leg.  CrossEncoder.predict looks at sentences[0]
\* in some releases of sentence_transformers and fails on an empty list, in
\* others it returns no score; as for the scorer, both outcomes are kept
EmptySetups ==
    \E z \in BOOLEAN, ce \in BOOLEAN, l \in LlmBehaviours :
        Setup(<<>>, OZONE_LEVELS, FALSE,
              [DefaultExt EXCEPT !.vector_results = <<>>, !.bm25_raises = z,
                                 !.ce_raises = ce, !.llm = l])

\* a corpus around the size the lexical leg keeps, with scores that repeat:
\* document i scores (i * a) % m
Bm25Pattern(n, a, m) == [i \in 1..n |-> (i * a) % m]

LexicalCutSetups ==
    \E n \in (BM25_TOP - 1)..(BM25_TOP + MaxOver), a \in 1..3, m \in 1..4 :
        Setup(load_docs_corpus(Cycle(CorpusTemplates, n)), OZONE_LEVELS, FALSE,
              [DefaultExt EXCEPT !.vector_results = <<>>,
                                 !.bm25_scores = Bm25Pattern(n, a, m)])

\* the corpus snapshot of the index EsFull, load_docs_corpus on its records:
\* the two chunks of page A have the same url and no chunk index in the
\* snapshot (workflow.py:66)
SnapshotOf(index) ==
    load_docs_corpus([i \in 1..Len(index) |->
                        [content |-> index[i].content, url |-> index[i].url,
                         title |-> index[i].title]])

SnapshotSetups ==
    \E a \in 1..3, m \in 1..4, v \in {<<>>, VectorResults(Cycle(VectorTemplates, 2))} :
        Setup(SnapshotOf(EsFull), OZONE_LEVELS, FALSE,
              [DefaultExt EXCEPT !.vector_results = v,
                                 !.bm25_scores = Bm25Pattern(Len(EsFull), a, m)])

RetrievalSetups ==
    \/ FusionSetups \/ RerankSetups \/ FailureSetups \/ EmptySetups
    \/ LexicalCutSetups \/ SnapshotSetups

WorkflowSetups ==
    \/ \E cb \in BOOLEAN, a \in AqScenarios, l \in LlmBehaviours :
          Setup(DefaultCorpus, OZONE_LEVELS, cb,
                [DefaultExt EXCEPT !.cls = Says(AIR_QUALITY), !.aq = a, !.llm = l])
    \/ \E cb \in BOOLEAN, c \in {Says(GENERAL), Says(BANANA)},
          x \in {GoodExpansion, GarbageExpansion, CHOOSE y \in ExpanderResponses : y.raises},
          l \in LlmBehaviours :
          Setup(DefaultCorpus, OZONE_LEVELS, cb,
                [DefaultExt EXCEPT !.cls = c, !.exp = x, !.llm = l])
    \/ \E c \in {Throws, Says(<<>>), Says(<<" ", "\n">>)} :
          Setup(DefaultCorpus, OZONE_LEVELS, FALSE, [DefaultExt EXCEPT !.cls = c])
    \/ \E x \in ExpanderResponses :
          Setup(DefaultCorpus, OZONE_LEVELS, FALSE, [DefaultExt EXCEPT !.exp = x])
    \/ FullLegSetups
    \/ EmptySetups
    \/ ClassifierSetups

(***************************************************************************)
(* Specifications.                                                         *)
(***************************************************************************)
\* both entry points, each called once with the same query
Init == WorkflowSetups

Next ==
    \/ \E r \in Requests : QueryClassifierTool(r)
    \/ BlockingDispatch
    \/ StreamingDispatch
    \/ \E r \in Requests : SpecializedRetrievalAgent(r)
    \/ BlockingSynthesis
    \/ AirStreamNext
    \/ QueryContextResume1
    \/ QueryContextResume2
    \/ StreamingSynthesisStart
    \/ SynthesisToken
    \/ SynthesisAnswer
    \/ SynthesisDone
    \/ StreamingExhausted

Spec == Init /\ [][Next]_vars

\* the classifier alone, over every model response
InitClassifier == ClassifierSetups
NextClassifier == \E r \in Requests : QueryClassifierTool(r)
SpecClassifier == InitClassifier /\ [][NextClassifier]_vars

\* the expander (both methods), over every query and model response
InitExpander == ExpanderSetups
NextExpander ==
    \/ \E r \in Requests : QueryClassifierTool(r)
    \/ BlockingDispatch
    \/ StreamingDispatch
    \/ QueryContextResume1
    \/ QueryContextResume2
    \/ QueryContextNode
SpecExpander == InitExpander /\ [][NextExpander]_vars

\* the blocking entry point up to the return of the retrieval agent, over
\* every candidate list, corpus, score and index content
InitRetrieval == RetrievalSetups
NextRetrieval ==
    \/ QueryClassifierTool("blocking")
    \/ BlockingDispatch
    \/ SpecializedRetrievalAgent("blocking")
SpecRetrieval == InitRetrieval /\ [][NextRetrieval]_vars

\* a synthesis agent called on a state of its caller's making: any list of
\* retrieved documents and any extra sources
ExtraSources ==
    {[url |-> URL_A, title |-> "A"], [url |-> URL_B, title |-> "B"],
     [url |-> "No URL", title |-> "N"], [title |-> "T"]}

RetrievedLists ==
    {VectorResults(ts) : ts \in SeqsUpTo(Range(VectorTemplates), MaxDocs)}
    \cup {VectorResults(ts) \o DefaultCorpus : ts \in SeqsUpTo(Range(VectorTemplates), 1)}

SynthesisSetups ==
    \E docs \in RetrievedLists, extras \in SeqsUpTo(ExtraSources, MaxExtras),
       cb \in BOOLEAN :
        /\ docs_corpus = DefaultCorpus
        /\ args = [user_query |-> OZONE_LEVELS, callback_handler |-> cb]
        /\ ext = DefaultExt
        /\ pc = [r \in Requests |-> "retrieved"]
        /\ state = [r \in Requests |->
                      [user_query |-> OZONE_LEVELS, messages |-> <<>>,
                       retrieved_docs |-> docs, sources |-> extras]]
        /\ local = [r \in Requests |-> << >>]
        /\ events = <<>>
        /\ cb_log = <<>>
        /\ result = << >>
        /\ exc = [r \in Requests |-> "none"]
        /\ calls = [r \in Requests |-> [st \in Stages |-> 0]]
        /\ node_out = << >>

\* the two synthesis agents alone
InitSynthesis == SynthesisSetups
NextSynthesis ==
    \/ BlockingSynthesis
    \/ StreamingSynthesisStart
    \/ SynthesisToken
    \/ SynthesisAnswer
    \/ SynthesisDone
    \/ StreamingExhausted
SpecSynthesis == InitSynthesis /\ [][NextSynthesis]_vars

(***************************************************************************)
(* Properties of the retrieval agent (SpecRetrieval).                      *)
(***************************************************************************)
RetrievalReturned(r) == pc[r] = "retrieved" /\ "retrieval" \in DOMAIN local[r]
Retr(r) == local[r]["retrieval"]

SemanticUrl(doc) == Get(doc.metadata, "url", NoneV)
LexicalUrl(doc) == Get(doc.d, "url", NoneV)
CandidateUrl(doc) == IF doc.shape = "Document" THEN SemanticUrl(doc) ELSE LexicalUrl(doc)
HasUrl(doc) == CandidateUrl(doc) \notin {NoneV, ""}
SeqCount(s, P(_)) == Cardinality({j \in 1..Len(s) : P(s[j])})

\* C1 (fusion dedup): every URL occurring in the semantic list is a key of
\* the fused map exactly once and exactly one fused candidate carries it;
\* that candidate is one of the semantic candidates with this URL, unchanged,
\* also when a lexical candidate has the same URL; no lexical candidate with
\* a semantic URL is in the fused map.
C1_FusionDedup ==
    \A r \in Requests : RetrievalReturned(r) =>
        LET S == Retr(r).vector_results
            fused == Retr(r).all_docs
            values == Retr(r).combined_docs
        IN  /\ \A i \in 1..Len(S) : HasUrl(S[i]) =>
                 LET u == SemanticUrl(S[i])
                     at == {j \in 1..Len(fused) : fused[j].key = u}
                 IN  /\ Cardinality(at) = 1
                     /\ \A j \in at :
                          /\ fused[j].doc \in {S[k] : k \in 1..Len(S)}
                          /\ SemanticUrl(fused[j].doc) = u
                     /\ Cardinality({j \in 1..Len(values) :
                                        CandidateUrl(values[j]) = u}) = 1
            /\ \A j \in 1..Len(values) :
                 values[j].shape = "dict" =>
                    ~\E i \in 1..Len(S) :
                        HasUrl(S[i]) /\ SemanticUrl(S[i]) = LexicalUrl(values[j])

C1_Witness ==
    /\ RetrievalReturned("blocking")
    /\ \E i \in 1..Len(Retr("blocking").vector_results) :
       \E k \in 1..Len(Retr("blocking").bm25_docs) :
          /\ HasUrl(Retr("blocking").vector_results[i])
          /\ SemanticUrl(Retr("blocking").vector_results[i])
                = LexicalUrl(Retr("blocking").bm25_docs[k])
    /\ Len(Retr("blocking").combined_docs) >= 2

\* C6 (no-URL safety): every semantic or lexical candidate without a URL
\* (missing or empty) is in the fused map, and the map has one entry for each
\* of them besides one entry for each distinct URL.
C6_NoUrlSafety ==
    \A r \in Requests : RetrievalReturned(r) =>
        LET S == Retr(r).vector_results
            L == Retr(r).bm25_docs
            values == Retr(r).combined_docs
            urls == {CandidateUrl(S[i]) : i \in {k \in 1..Len(S) : HasUrl(S[k])}}
                    \cup {CandidateUrl(L[i]) : i \in {k \in 1..Len(L) : HasUrl(L[k])}}
            NoUrl(d) == ~HasUrl(d)
        IN  /\ \A i \in 1..Len(S) : ~HasUrl(S[i]) => \E j \in 1..Len(values) : values[j] = S[i]
            /\ \A i \in 1..Len(L) : ~HasUrl(L[i]) => \E j \in 1..Len(values) : values[j] = L[i]
            /\ Len(values) = Cardinality(urls) + SeqCount(S, NoUrl) + SeqCount(L, NoUrl)

C6_Witness ==
    /\ RetrievalReturned("blocking")
    /\ Cardinality({i \in 1..Len(Retr("blocking").vector_results) :
                       ~HasUrl(Retr("blocking").vector_results[i])}) >= 2
    /\ Cardinality({i \in 1..Len(Retr("blocking").bm25_docs) :
                       ~HasUrl(Retr("blocking").bm25_docs[i])}) >= 2
    /\ \E i \in 1..Len(Retr("blocking").vector_results) :
          HasUrl(Retr("blocking").vector_results[i])

\* index a is ranked before index b: higher score, or equal score and lower index
RankedBefore(scores, a, b) ==
    \/ scores[a + 1] > scores[b + 1]
    \/ scores[a + 1] = scores[b + 1] /\ a < b

\* C2 (rerank ordering): the selected indices are distinct indices of the
\* fused list, sorted by score descending with ties in ascending index, they
\* are the first min(4, n) of that order, and top_docs are the candidates at
\* these indices; scores 2,0,1,2 (the pattern 0.9, 0.1, 0.5, 0.9) give 0,3,2,1.
C2_RerankOrdering ==
    \A r \in Requests : RetrievalReturned(r) =>
        LET scores == Retr(r).scores
            top == Retr(r).top_indices
            n == Len(Retr(r).combined_docs)
        IN  /\ Len(scores) = n
            /\ Len(top) = (IF n < 4 THEN n ELSE 4)
            /\ \A j \in 1..Len(top) : top[j] \in 0..(n - 1)
            /\ \A j, k \in 1..Len(top) : j < k => RankedBefore(scores, top[j], top[k])
            /\ \A i \in 0..(n - 1) :
                 (\A j \in 1..Len(top) : top[j] # i) =>
                    \A j \in 1..Len(top) : RankedBefore(scores, top[j], i)
            /\ Len(Retr(r).top_docs) = Len(top)
            /\ \A j \in 1..Len(top) : Retr(r).top_docs[j] = Retr(r).combined_docs[top[j] + 1]
            /\ scores = <<2, 0, 1, 2>> => top = <<0, 3, 2, 1>>

\* more than four fused candidates, tied scores both inside the selection and
\* across its boundary
C2_Witness ==
    /\ RetrievalReturned("blocking")
    /\ Len(Retr("blocking").combined_docs) > 4
    /\ Len(Retr("blocking").top_indices) = 4
    /\ \E j \in 1..3 :
          Retr("blocking").scores[Retr("blocking").top_indices[j] + 1]
             = Retr("blocking").scores[Retr("blocking").top_indices[j + 1] + 1]
    /\ \E i \in 0..(Len(Retr("blocking").scores) - 1) :
          /\ \A j \in 1..4 : Retr("blocking").top_indices[j] # i
          /\ Retr("blocking").scores[i + 1]
                = Retr("blocking").scores[Retr("blocking").top_indices[4] + 1]

C2_ExampleReached ==
    /\ RetrievalReturned("blocking")
    /\ Retr("blocking").scores = <<2, 0, 1, 2>>
    /\ Retr("blocking").top_indices = <<0, 3, 2, 1>>

\* the metadata store has no record for the candidate's identity: its URL and
\* chunk index when it has both, its URL when it has no chunk index, its
\* content when it has no URL
NoStoreRecord(doc) ==
    LET meta == IF doc.shape = "Document" THEN doc.metadata ELSE doc.d
        url == Get(meta, "url", NoneV)
        chunk == Get(meta, "chunk_index", NoneIdx)
    IN  \A k \in 1..Len(ext.es_index) :
            LET rec == ext.es_index[k]
            IN  IF url # NoneV /\ chunk # NoneIdx
                THEN ~(rec.url = url /\ rec.chunk_index = chunk)
                ELSE IF url # NoneV THEN rec.url # url
                ELSE rec.content # ContentOf(doc)

\* C7 (enrichment pass-through): the enriched list has the length of the
\* selected list, a selected candidate for which the store returns no hit is
\* at the same position of the enriched list, the same object unchanged, and
\* the agent returns the enriched list as retrieved_docs.
C7_EnrichmentPassThrough ==
    \A r \in Requests : RetrievalReturned(r) =>
        LET top == Retr(r).top_docs
            enriched == state[r]["retrieved_docs"]
        IN  /\ Len(enriched) = Len(top)
            /\ \A j \in 1..Len(top) : NoStoreRecord(top[j]) => enriched[j] = top[j]

C7_Witness ==
    /\ RetrievalReturned("blocking")
    /\ \E j, k \in 1..Len(Retr("blocking").top_docs) :
          /\ j < k
          /\ NoStoreRecord(Retr("blocking").top_docs[k])
          /\ ~NoStoreRecord(Retr("blocking").top_docs[j])
          /\ state["blocking"]["retrieved_docs"][k] = Retr("blocking").top_docs[k]
          /\ state["blocking"]["retrieved_docs"][j] # Retr("blocking").top_docs[j]

(***************************************************************************)
(* Properties of the classifier (SpecClassifier).                          *)
(***************************************************************************)
Blank(c) == c \in {" ", "\t", "\n"}
HasNonBlank(t) == \E i \in 1..Len(t) : ~Blank(t[i])

\* the first line of t that has a non-blank character, without the blanks
\* around it, in lower case
FirstNonBlankLine(t) ==
    LET p == CHOOSE i \in 1..Len(t) : ~Blank(t[i]) /\ \A k \in 1..(i - 1) : Blank(t[k])
        breaks == {i \in (p + 1)..Len(t) : t[i] = "\n"}
        e == IF breaks = {} THEN Len(t) + 1
             ELSE CHOOSE i \in breaks : \A k \in breaks : i <= k
        q == CHOOSE i \in p..(e - 1) : ~Blank(t[i]) /\ \A k \in (i + 1)..(e - 1) : Blank(t[k])
    IN  [i \in 1..(q - p + 1) |-> LowerChar(t[p + i - 1])]

Classified(r) == calls[r]["classifier"] > 0 /\ exc[r] = "none"

\* C3 (classifier fail-open): when the classifier returns for a response
\* with a non-blank line, query_type is air_quality if the first non-blank
\* line, trimmed and lower-cased, is exactly air_quality, and general for
\* every other line, the literal general and any unknown label alike.
C3_ClassifierFailOpen ==
    \A r \in Requests :
        (Classified(r) /\ HasNonBlank(ext.cls.text)) =>
            /\ "query_type" \in DOMAIN state[r]
            /\ state[r]["query_type"] =
                  (IF FirstNonBlankLine(ext.cls.text) = AIR_QUALITY THEN AIR_QUALITY
                   ELSE GENERAL)

C3_Witness ==
    /\ Classified("blocking")
    /\ FirstNonBlankLine(ext.cls.text) = BANANA
    /\ state["blocking"]["query_type"] = GENERAL

C3_WitnessAirQuality ==
    /\ Classified("blocking")
    /\ ext.cls.text # AIR_QUALITY
    /\ FirstNonBlankLine(ext.cls.text) = AIR_QUALITY
    /\ state["blocking"]["query_type"] = AIR_QUALITY

\* C4 (the classifier never raises): once the classifier has been called, no
\* exception has propagated and the state has a query_type, which is general
\* when the model call threw or the response has no non-blank character.
C4_ClassifierNeverRaises ==
    \A r \in Requests :
        calls[r]["classifier"] > 0 =>
            /\ exc[r] = "none"
            /\ "query_type" \in DOMAIN state[r]
            /\ (ext.cls.raises \/ ~HasNonBlank(ext.cls.text)) =>
                    state[r]["query_type"] = GENERAL

\* the three outcomes of C4, each as a state the classifier reaches
C4_RaisedOnThrow == \E r \in Requests : ext.cls.raises /\ exc[r] = "LLMError"
C4_RaisedOnEmpty == \E r \in Requests : ext.cls = Says(<<>>) /\ exc[r] = "IndexError"
C4_RaisedOnWhitespace ==
    \E r \in Requests : ext.cls = Says(<<" ", "\n">>) /\ exc[r] = "IndexError"

(***************************************************************************)
(* Properties of the expander (SpecExpander).                              *)
(***************************************************************************)
WordStarts(q) == {i \in 1..Len(q) : ~Blank(q[i]) /\ (i = 1 \/ Blank(q[i - 1]))}
WordEnds(q) == {i \in 1..Len(q) : ~Blank(q[i]) /\ (i = Len(q) \/ Blank(q[i + 1]))}
Kth(S, k) == CHOOSE x \in S : Cardinality({y \in S : y < x}) = k - 1

\* the maximal runs of non-blank characters of q, in order
WhitespaceWords(q) ==
    [k \in 1..Cardinality(WordStarts(q)) |->
        SubSeq(q, Kth(WordStarts(q), k), Kth(WordEnds(q), k))]

IsFallback(x) ==
    /\ x.rewrites = <<args.user_query>>
    /\ x.keywords = WhitespaceWords(args.user_query)

\* C5 (expansion fallback): when the model's response is not valid JSON,
\* what __call__ returns, every event that stream yields and the rewrites
\* and keywords the workflow takes from them are the one-element list of the
\* original query and its whitespace split; "ozone levels" gives
\* ["ozone levels"] and ["ozone", "levels"].
C5_ExpansionFallback ==
    (~ext.exp.raises /\ JsonLoadsRaises(ext.exp)) =>
        /\ DOMAIN node_out # {} => IsFallback(node_out) /\ node_out.user_query = args.user_query
        /\ \A i \in 1..Len(events) :
              events[i].type \in {"tool", "query_context_done"} => IsFallback(events[i])
        /\ \A r \in Requests : pc[r] = "expanded" => IsFallback(state[r])
        /\ (args.user_query = OZONE_LEVELS /\ DOMAIN node_out # {}) =>
              node_out.keywords = <<OZONE, LEVELS>>

\* both methods have run on "ozone levels" with a response that is no JSON
C5_Witness ==
    /\ ~ext.exp.raises /\ JsonLoadsRaises(ext.exp)
    /\ args.user_query = OZONE_LEVELS
    /\ DOMAIN node_out # {}
    /\ node_out.rewrites = <<OZONE_LEVELS>>
    /\ node_out.keywords = <<OZONE, LEVELS>>
    /\ Len(events) = 2
    /\ events[1].type = "tool"
    /\ events[2].type = "query_context_done"
    /\ events[2].rewrites = <<OZONE_LEVELS>>
    /\ events[2].keywords = <<OZONE, LEVELS>>
    /\ pc["blocking"] = "expanded"
    /\ state["blocking"]["keywords"] = <<OZONE, LEVELS>>

\* a query with a leading blank and a run of blanks
C5_BlankRunsReached ==
    /\ ~ext.exp.raises /\ JsonLoadsRaises(ext.exp)
    /\ args.user_query \in {<<" ">> \o OZONE, OZONE \o <<" ", " ">>}
    /\ DOMAIN node_out # {}
    /\ node_out.keywords = <<OZONE>>

(***************************************************************************)
(* Properties of the two entry points (Spec).                              *)
(***************************************************************************)
Drained == pc["streaming"] = "returned"
BothReturned == pc["blocking"] = "returned" /\ Drained

\* C8 (mode equivalence): when the blocking call has returned and the
\* streaming sequence is drained, for the same query and collaborators, the
\* streaming sequence holds the final answer and source list that the
\* blocking call returned, and the source list of its done event is the same.
C8_ModeEquivalence ==
    BothReturned =>
        /\ \E i \in 1..Len(events) :
              /\ events[i].type = "answer"
              /\ events[i].content = result.answer
              /\ events[i].sources = result.sources
        /\ \A i \in 1..Len(events) :
              events[i].type = "done" => events[i].sources = result.sources

\* the same on the general branch alone
C8_GeneralBranchEquivalent ==
    (BothReturned /\ state["blocking"]["query_type"] = GENERAL) =>
        \E i \in 1..Len(events) :
            /\ events[i].type = "answer"
            /\ events[i].content = result.answer
            /\ events[i].sources = result.sources

\* the domain branch: the streaming mode ends without any answer while the
\* blocking mode returned one, or answers with the agent's summary
C8_NoStreamedAnswer ==
    /\ BothReturned
    /\ \A i \in 1..Len(events) : events[i].type = "location_needed"
    /\ "answer" \in DOMAIN result

C8_DifferentAnswer ==
    /\ BothReturned
    /\ \E i \in 1..Len(events) :
          events[i].type = "answer" /\ events[i].content # result.answer

\* C9 (terminal done event): a drained streaming sequence is not empty and
\* its last event is a done event that carries a source list.
C9_TerminalDone ==
    Drained =>
        /\ events # <<>>
        /\ Last(events).type = "done"
        /\ "sources" \in DOMAIN Last(events)

C9_GeneralBranchEndsWithDone ==
    (Drained /\ state["streaming"]["query_type"] = GENERAL) =>
        /\ events # <<>>
        /\ Last(events).type = "done"
        /\ Last(events).sources = local["streaming"]["sources"]

C9_DomainEndsWithAnswer ==
    Drained /\ state["streaming"]["query_type"] = AIR_QUALITY
            /\ Last(events).type = "answer"

C9_DomainEndsWithLocationNeeded ==
    Drained /\ state["streaming"]["query_type"] = AIR_QUALITY
            /\ Last(events).type = "location_needed"

\* C10 (single branch point): no stage is invoked more than once for a
\* query; the classifier is invoked exactly once as soon as the request has
\* left its start; the domain agent runs only under the label air_quality,
\* the expander and retrieval only under general, never both paths; retrieval
\* runs only after the expander; a request that returned ran exactly the
\* stages of the selected path.
C10_SingleBranchPoint ==
    \A r \in Requests :
        LET n == calls[r]
            label == Get(state[r], "query_type", NoneV)
        IN  /\ \A st \in Stages : n[st] <= 1
            /\ pc[r] = "start" => \A st \in Stages : n[st] = 0
            /\ pc[r] # "start" => n["classifier"] = 1
            /\ ~(n["air_quality_agent"] > 0
                 /\ (n["query_context"] > 0 \/ n["specialized_retrieval"] > 0))
            /\ n["air_quality_agent"] > 0 =>
                  label = AIR_QUALITY /\ route_query(state[r]) = "air_quality_agent"
            /\ n["query_context"] > 0 =>
                  label = GENERAL /\ route_query(state[r]) = "query_context"
            /\ n["specialized_retrieval"] > 0 => n["query_context"] = 1
            /\ n["synthesis"] > 0 =>
                  n["air_quality_agent"] + n["specialized_retrieval"] = 1
            /\ pc[r] = "returned" =>
                  \/ /\ label = AIR_QUALITY
                     /\ n["air_quality_agent"] = 1
                     /\ n["query_context"] = 0 /\ n["specialized_retrieval"] = 0
                  \/ /\ label = GENERAL
                     /\ n["air_quality_agent"] = 0
                     /\ n["query_context"] = 1 /\ n["specialized_retrieval"] = 1

\* both modes returned, one query on each path is covered by the two witnesses
C10_Witness ==
    /\ BothReturned
    /\ state["streaming"]["query_type"] = GENERAL
    /\ calls["streaming"] = [st \in Stages |->
                                IF st = "air_quality_agent" THEN 0 ELSE 1]
    /\ calls["blocking"] = calls["streaming"]

C10_DomainPathReached ==
    /\ BothReturned
    /\ state["blocking"]["query_type"] = AIR_QUALITY
    /\ calls["blocking"] = [st \in Stages |->
                               IF st \in {"query_context", "specialized_retrieval"}
                               THEN 0 ELSE 1]
    /\ calls["streaming"]["air_quality_agent"] = 1
    /\ calls["streaming"]["synthesis"] = 0

(***************************************************************************)
(* Failures and edge cases of the retrieval stage (SpecRetrieval).         *)
(***************************************************************************)
RetrievalInvoked(r) == calls[r]["specialized_retrieval"] > 0

\* the lexical candidates of the corpus snapshot, as lines 18-21 select them
LexicalCandidates ==
    LET top == TopIndices(ext.bm25_scores, BM25_TOP)
    IN  [j \in 1..Len(top) |-> docs_corpus[top[j] + 1]]

\* C11 (retrieval-leg isolation): once the retrieval stage has been invoked
\* with a leg that throws, no exception has left the entry point, and the
\* fused list is the fusion of the other leg's candidates with an empty list
\* in place of the failed leg.
C11_LegIsolation ==
    \A r \in Requests :
        (RetrievalInvoked(r) /\ (ext.vector_raises \/ ext.bm25_raises)) =>
            /\ exc[r] = "none"
            /\ RetrievalReturned(r)
            /\ Retr(r).combined_docs =
                  DictValues(Fuse(IF ext.vector_raises THEN <<>> ELSE ext.vector_results,
                                  IF ext.bm25_raises THEN <<>> ELSE LexicalCandidates))

\* the other leg had candidates when the semantic leg failed
C11_SemanticLegPropagates ==
    /\ ext.vector_raises
    /\ docs_corpus # <<>>
    /\ exc["blocking"] = "StoreError"
    /\ pc["blocking"] = "raised"
    /\ "retrieved_docs" \notin DOMAIN state["blocking"]

C11_LexicalLegPropagates ==
    /\ ext.bm25_raises
    /\ ext.vector_results # <<>>
    /\ exc["blocking"] = "ZeroDivisionError"
    /\ pc["blocking"] = "raised"

(***************************************************************************)
(* The expansion result as the retrieval stage receives it (Spec).         *)
(***************************************************************************)
\* C12 (expansion never starves or fails the pipeline): whatever the model
\* answered to the expander, the state handed to retrieval has a non-empty
\* rewrites list and a keywords entry, and the retrieval stage does not fail
\* on the expansion result.
C12_ExpansionNeverStarves ==
    \A r \in Requests :
        /\ pc[r] = "expanded" =>
              /\ "rewrites" \in DOMAIN state[r]
              /\ state[r]["rewrites"] # <<>>
              /\ "keywords" \in DOMAIN state[r]
        /\ (RetrievalInvoked(r) /\ ~ext.bm25_raises /\ ~ext.vector_raises /\ ~ext.es_raises)
              => exc[r] = "none"

\* a JSON object without "rewrites": the list handed over is empty and
\* rewrites[0] fails in the retrieval stage
C12_EmptyRewritesHandedOver ==
    /\ ext.exp.body.type = "object" /\ ~JsonLoadsRaises(ext.exp)
    /\ "rewrites" \notin DOMAIN ext.exp.body.obj
    /\ pc["streaming"] = "expanded"
    /\ state["streaming"]["rewrites"] = <<>>

C12_RetrievalIndexError ==
    /\ ext.exp.body.type = "object" /\ ~JsonLoadsRaises(ext.exp)
    /\ "rewrites" \notin DOMAIN ext.exp.body.obj
    /\ RetrievalInvoked("blocking")
    /\ exc["blocking"] = "IndexError"

\* the responses that do fall back reach retrieval with the query as rewrite
C12_FallbackFeedsRetrieval ==
    \A r \in Requests :
        (ExpansionFallsBack(ext.exp) /\ RetrievalInvoked(r)
            /\ ~ext.bm25_raises /\ ~ext.vector_raises /\ ~ext.es_raises) =>
            /\ exc[r] = "none"
            /\ state[r]["rewrites"] = <<args.user_query>>

(***************************************************************************)
(* What synthesis receives on the general branch (Spec).                   *)
(***************************************************************************)
SynthesisStarted(r) ==
    /\ "context" \in DOMAIN local[r]
    /\ "retrieval" \in DOMAIN local[r]

\* the contents of docs joined by a blank line
BlankLineJoined(docs) ==
    LET RECURSIVE J(_)
        J(k) == IF k > Len(docs) THEN <<>>
                ELSE IF k = Len(docs) THEN ContentOf(docs[k])
                ELSE ContentOf(docs[k]) \o <<"\n", "\n">> \o J(k + 1)
    IN  J(1)

\* C13 (context construction): on the general branch the context given to
\* synthesis is the contents of the retrieved documents in their order,
\* joined by "\n\n"; with 10 semantic and 10 lexical candidates the fused
\* list has at most 20 entries, exactly 4 documents reach synthesis, and the
\* context is not empty when their contents are not.
C13_ContextConstruction ==
    \A r \in Requests : SynthesisStarted(r) =>
        LET docs == Retr(r).enriched_docs
        IN  /\ local[r]["context"] = BlankLineJoined(docs)
            /\ (Len(Retr(r).vector_results) = 10 /\ Len(Retr(r).bm25_docs) = 10) =>
                  /\ Len(Retr(r).combined_docs) <= 20
                  /\ Len(docs) = 4
                  /\ (\A j \in 1..Len(docs) : ContentOf(docs[j]) # <<>>) =>
                        local[r]["context"] # <<>>

\* the part of C13 that the code keeps: the join, the bound of the fused list
\* and the non-empty context
C13_ContextIsJoin ==
    \A r \in Requests : SynthesisStarted(r) =>
        LET docs == Retr(r).enriched_docs
        IN  /\ local[r]["context"] = BlankLineJoined(docs)
            /\ Len(Retr(r).combined_docs)
                  <= Len(Retr(r).vector_results) + Len(Retr(r).bm25_docs)
            /\ Len(docs) = Min(TOP_K, Len(Retr(r).combined_docs))
            /\ (docs # <<>> /\ \A j \in 1..Len(docs) : ContentOf(docs[j]) # <<>>) =>
                  local[r]["context"] # <<>>

\* ten and ten candidates, one URL in each leg: one document reaches synthesis
C13_OneDocumentOfTwenty ==
    /\ SynthesisStarted("blocking")
    /\ Len(Retr("blocking").vector_results) = 10
    /\ Len(Retr("blocking").bm25_docs) = 10
    /\ Len(Retr("blocking").enriched_docs) = 1

C13_FourDocumentsOfTwenty ==
    /\ SynthesisStarted("streaming")
    /\ Len(Retr("streaming").combined_docs) = 20
    /\ Len(Retr("streaming").enriched_docs) = 4

(***************************************************************************)
(* The events of the streaming entry point (Spec).                         *)
(***************************************************************************)
DocumentedEventTypes ==
    {"tool", "token", "answer", "done", "location_needed", "air_quality"}

\* C14 as stated (event vocabulary): every event yielded to the consumer
\* has a type among tool, token, answer, done, location_needed, air_quality.
C14_EventVocabulary ==
    \A i \in 1..Len(events) : events[i].type \in DocumentedEventTypes

\* C14 amended: every event yielded to the consumer has a type among the six
\* documented ones and query_context_done; a query_context_done event comes
\* directly after the tool event of the expander and repeats its rewrites and
\* keywords, and there is at most one of it.
C14_EventVocabularyAmended ==
    /\ \A i \in 1..Len(events) :
          /\ "type" \in DOMAIN events[i]
          /\ events[i].type \in DocumentedEventTypes \cup {"query_context_done"}
          /\ events[i].type = "query_context_done" =>
                /\ i > 1
                /\ events[i - 1].type = "tool"
                /\ events[i].rewrites = events[i - 1].rewrites
                /\ events[i].keywords = events[i - 1].keywords
    /\ Cardinality({i \in 1..Len(events) : events[i].type = "query_context_done"}) <= 1

\* a drained sequence of the general branch: tool, query_context_done,
\* tokens, answer, done
C14_Witness ==
    /\ Drained
    /\ Len(events) >= 5
    /\ events[1].type = "tool"
    /\ events[2].type = "query_context_done"
    /\ \E i \in 3..Len(events) : events[i].type = "token"
    /\ Last(events).type = "done"

(***************************************************************************)
(* The source lists of the synthesis agents (SpecSynthesis).               *)
(***************************************************************************)
NoTwoWithSameUrl(sources) ==
    \A i, j \in 1..Len(sources) :
        (i < j /\ "url" \in DOMAIN sources[i] /\ "url" \in DOMAIN sources[j])
            => sources[i].url # sources[j].url

\* C15 (deduplicated sources): the source list that the blocking call
\* returns and the source lists of the streaming answer and done events have
\* no two entries with the same url.
C15_DeduplicatedSources ==
    /\ pc["blocking"] = "returned" => NoTwoWithSameUrl(result.sources)
    /\ \A i \in 1..Len(events) :
          events[i].type \in {"answer", "done"} => NoTwoWithSameUrl(events[i].sources)

\* the streaming mode alone
C15_StreamingDeduplicated ==
    \A i \in 1..Len(events) :
        events[i].type \in {"answer", "done"} => NoTwoWithSameUrl(events[i].sources)

\* an extra source with the url of a retrieved document: twice in the list
\* that the blocking call returns, once in the streamed one
C15_BlockingReturnsDuplicate ==
    /\ BothReturned
    /\ state["blocking"]["user_query"] = OZONE_LEVELS
    /\ ~NoTwoWithSameUrl(result.sources)
    /\ NoTwoWithSameUrl(Last(events).sources)
    /\ Len(Last(events).sources) < Len(result.sources)

(***************************************************************************)
(* Empty inputs of the retrieval stage (SpecRetrieval).                    *)
(***************************************************************************)
\* C16 (empty corpus): when the corpus snapshot has no document and the
\* stores answer, the retrieval stage raises nothing, its lexical list is
\* empty and the fused list is the fusion of the semantic candidates alone.
C16_EmptyCorpus ==
    \A r \in Requests :
        (docs_corpus = <<>> /\ RetrievalInvoked(r)
            /\ ~ext.vector_raises /\ ~ext.es_raises) =>
            /\ exc[r] = "none"
            /\ RetrievalReturned(r)
            /\ Retr(r).bm25_docs = <<>>
            /\ Retr(r).combined_docs = DictValues(Fuse(ext.vector_results, <<>>))

\* the scorer's constructor divides by the corpus size
C16_EmptyCorpusRaises ==
    /\ docs_corpus = <<>>
    /\ Len(ext.vector_results) >= 2
    /\ RetrievalInvoked("blocking")
    /\ exc["blocking"] = "ZeroDivisionError"
    /\ pc["blocking"] = "raised"

(***************************************************************************)
(* Keys of the fused dictionary (SpecRetrieval).                           *)
(***************************************************************************)
\* the entries of the fused dictionary filed under key k
EntriesAt(fused, k) == {j \in 1..Len(fused) : fused[j].key = k}

\* C18 (synthetic keys are disjoint from real URLs): the key "vector_" +
\* position of a URL-less semantic candidate equals the URL of no candidate,
\* semantic or lexical, that has one; the entry under that key is the URL-less
\* candidate itself, and the entry under a URL is a candidate carrying that
\* URL, so neither kind replaces or suppresses the other.
C18_SyntheticKeysDisjoint ==
    \A r \in Requests : RetrievalReturned(r) =>
        LET S == Retr(r).vector_results
            L == Retr(r).bm25_docs
            fused == Retr(r).all_docs
            urls == {CandidateUrl(S[i]) : i \in {k \in 1..Len(S) : HasUrl(S[k])}}
                    \cup {CandidateUrl(L[i]) : i \in {k \in 1..Len(L) : HasUrl(L[k])}}
        IN  /\ \A i \in 1..Len(S) : ~HasUrl(S[i]) =>
                 LET k == "vector_" \o ToString(i - 1)
                 IN  /\ k \notin urls
                     /\ \E j \in EntriesAt(fused, k) : fused[j].doc = S[i]
            /\ \A u \in urls :
                 /\ Cardinality(EntriesAt(fused, u)) = 1
                 /\ \A j \in EntriesAt(fused, u) :
                      HasUrl(fused[j].doc) /\ CandidateUrl(fused[j].doc) = u

\* URL-less semantic candidates at several positions, after and before
\* candidates with a URL, and a lexical candidate with a URL
C18_Witness ==
    /\ RetrievalReturned("blocking")
    /\ LET S == Retr("blocking").vector_results
           L == Retr("blocking").bm25_docs
       IN  /\ \E i, j, k \in 1..Len(S) :
                /\ i < j /\ j < k
                /\ ~HasUrl(S[i]) /\ HasUrl(S[j]) /\ ~HasUrl(S[k])
                /\ \E e \in 1..Len(Retr("blocking").all_docs) :
                      Retr("blocking").all_docs[e] = [key |-> "vector_2", doc |-> S[k]]
           /\ \E n \in 1..Len(L) : HasUrl(L[n])

\* the chunk index of a semantic candidate, NoneIdx when it has none
SemanticChunk(doc) == Get(doc.metadata, "chunk_index", NoneIdx)

\* two semantic candidates are chunks of one page
ChunksOfOnePage(a, b) ==
    /\ HasUrl(a) /\ HasUrl(b)
    /\ SemanticUrl(a) = SemanticUrl(b)
    /\ SemanticChunk(a) # NoneIdx /\ SemanticChunk(b) # NoneIdx
    /\ SemanticChunk(a) # SemanticChunk(b)

\* C19 (chunk-level identity): two candidates with the same URL and different
\* chunk indices are different identities, so both of them are in the fused
\* list.
C19_ChunkLevelIdentity ==
    \A r \in Requests : RetrievalReturned(r) =>
        LET S == Retr(r).vector_results
            values == Retr(r).combined_docs
        IN  \A i, j \in 1..Len(S) : ChunksOfOnePage(S[i], S[j]) =>
                /\ \E k \in 1..Len(values) : values[k] = S[i]
                /\ \E k \in 1..Len(values) : values[k] = S[j]

\* two chunks of one page were candidates and the fused list has the later one only
C19_EarlierChunkReplaced ==
    /\ RetrievalReturned("blocking")
    /\ LET S == Retr("blocking").vector_results
           values == Retr("blocking").combined_docs
       IN  \E i, j \in 1..Len(S) :
              /\ i < j
              /\ ChunksOfOnePage(S[i], S[j])
              /\ \A k \in 1..Len(values) : values[k] # S[i]
              /\ \E k \in 1..Len(values) : values[k] = S[j]

\* what the code does: one fused entry per URL, whatever the chunk indices
C19_OneEntryPerUrl ==
    \A r \in Requests : RetrievalReturned(r) =>
        LET values == Retr(r).combined_docs
        IN  \A i, j \in 1..Len(values) :
                (HasUrl(values[i]) /\ HasUrl(values[j])
                    /\ CandidateUrl(values[i]) = CandidateUrl(values[j])) => i = j

(***************************************************************************)
(* The store query of enrichment (SpecRetrieval).                          *)
(***************************************************************************)
\* the chunk index a candidate carries, NoneIdx when it carries none
CandidateChunk(doc) ==
    IF doc.shape = "Document" THEN Get(doc.metadata, "chunk_index", NoneIdx)
    ELSE Get(doc.d, "chunk_index", NoneIdx)

\* the lookup the candidate should get: by (url, chunk_index), by url, by text
LookupFor(doc) ==
    IF HasUrl(doc) /\ CandidateChunk(doc) # NoneIdx
    THEN [kind |-> "bool", url |-> CandidateUrl(doc),
          chunk_index |-> CandidateChunk(doc), content |-> <<>>]
    ELSE IF HasUrl(doc)
    THEN [kind |-> "term", url |-> CandidateUrl(doc), chunk_index |-> NoneIdx,
          content |-> <<>>]
    ELSE [kind |-> "match", url |-> NoneV, chunk_index |-> NoneIdx,
          content |-> ContentOf(doc)]

\* C20 (enrichment lookup selection): the store query of a reranked candidate
\* is the compound exact match on (url, chunk_index) when both are known, the
\* exact match on url when only the URL is known, and the content match on
\* the candidate's text otherwise, a candidate with the empty string as URL
\* included.
C20_LookupSelection ==
    \A r \in Requests : RetrievalReturned(r) =>
        LET top == Retr(r).top_docs
            queries == Retr(r).es_queries
        IN  /\ Len(queries) = Len(top)
            /\ \A j \in 1..Len(top) : queries[j] = LookupFor(top[j])

\* a corpus document without URL is looked up by the exact match on url = ""
C20_TermLookupOnEmptyUrl ==
    /\ RetrievalReturned("blocking")
    /\ \E j \in 1..Len(Retr("blocking").top_docs) :
          /\ Retr("blocking").top_docs[j].shape = "dict"
          /\ CandidateUrl(Retr("blocking").top_docs[j]) = ""
          /\ Retr("blocking").es_queries[j].kind = "term"
          /\ Retr("blocking").es_queries[j].url = ""

\* a chunk with the empty string as URL is looked up by the compound match
C20_CompoundLookupOnEmptyUrl ==
    /\ RetrievalReturned("blocking")
    /\ \E j \in 1..Len(Retr("blocking").top_docs) :
          /\ Retr("blocking").top_docs[j].shape = "Document"
          /\ CandidateUrl(Retr("blocking").top_docs[j]) = ""
          /\ Retr("blocking").es_queries[j].kind = "bool"
          /\ Retr("blocking").es_queries[j].url = ""

\* the store has a record with the text of a URL-less corpus document, and
\* the document is returned as it was
C20_RecordNotFound ==
    /\ RetrievalReturned("blocking")
    /\ \E j \in 1..Len(Retr("blocking").top_docs) :
          LET doc == Retr("blocking").top_docs[j]
          IN  /\ doc.shape = "dict" /\ CandidateUrl(doc) = ""
              /\ \E k \in 1..Len(ext.es_index) : ext.es_index[k].content = ContentOf(doc)
              /\ state["blocking"]["retrieved_docs"][j] = doc

\* for every candidate whose URL is not the empty string the selection is the
\* claimed one
C20_SelectionOtherwise ==
    \A r \in Requests : RetrievalReturned(r) =>
        LET top == Retr(r).top_docs
            queries == Retr(r).es_queries
        IN  \A j \in 1..Len(top) :
                CandidateUrl(top[j]) # "" => queries[j] = LookupFor(top[j])

\* each of the three lookups is selected for such a candidate
C20_ThreeLookupsReached ==
    /\ RetrievalReturned("blocking")
    /\ LET top == Retr("blocking").top_docs
           queries == Retr("blocking").es_queries
       IN  \A kind \in {"bool", "term", "match"} :
              \E j \in 1..Len(top) : CandidateUrl(top[j]) # "" /\ queries[j].kind = kind

(***************************************************************************)
(* No candidate at all (Spec).                                             *)
(***************************************************************************)
NoCandidates == docs_corpus = <<>> /\ ext.vector_results = <<>>

\* C17 (empty rerank input): when neither leg has a candidate, so that
\* fusion yields none, the retrieval stage raises nothing and returns an
\* empty retrieved_docs list, synthesis gets the empty context, and the answer
\* comes with an empty source list.
C17_EmptyRerankInput ==
    \A r \in Requests :
        (NoCandidates /\ RetrievalInvoked(r)) =>
            /\ exc[r] = "none"
            /\ RetrievalReturned(r) \/ calls[r]["synthesis"] > 0
            /\ state[r]["retrieved_docs"] = <<>>
            /\ calls[r]["synthesis"] > 0 => local[r]["context"] = <<>>
            /\ (r = "blocking" /\ pc[r] = "returned") =>
                  "answer" \in DOMAIN result /\ result.sources = <<>>
            /\ r = "streaming" =>
                  \A i \in 1..Len(events) :
                      events[i].type \in {"answer", "done"} => events[i].sources = <<>>

\* the stage fails before fusion, in the scorer's constructor
C17_RaisedBeforeFusion ==
    /\ NoCandidates
    /\ RetrievalInvoked("blocking")
    /\ exc["blocking"] = "ZeroDivisionError"

\* the stage fails in the reranker, on the empty list of pairs
C17_RaisedInRerank ==
    /\ NoCandidates
    /\ RetrievalInvoked("streaming")
    /\ ~ext.bm25_raises
    /\ exc["streaming"] = "IndexError"

\* where both libraries accept the empty input, the rest is as claimed
C17_EmptyContextWhenReturned ==
    \A r \in Requests :
        (NoCandidates /\ RetrievalInvoked(r) /\ exc[r] = "none") =>
            /\ state[r]["retrieved_docs"] = <<>>
            /\ calls[r]["synthesis"] > 0 => local[r]["context"] = <<>>
            /\ (r = "blocking" /\ pc[r] = "returned") => result.sources = <<>>

C17_EmptyContextReached ==
    /\ NoCandidates
    /\ BothReturned
    /\ local["blocking"]["context"] = <<>>
    /\ result.sources = <<>>
    /\ Last(events) = [type |-> "done", sources |-> <<>>]

(***************************************************************************)
(* The store lookups of one retrieval (SpecRetrieval).                     *)
(***************************************************************************)
\* the 0-based index of the fused candidate at 1-based place j of the ranking
PlaceInRanking(scores, j) ==
    CHOOSE i \in 0..(Len(scores) - 1) :
        Cardinality({k \in 0..(Len(scores) - 1) : RankedBefore(scores, k, i)}) = j - 1

\* C21 (enrichment is deferred and bounded): the lookups of a retrieval are
\* those of the candidates the reranker ranked first, one each and in the
\* order of the ranking, so there are min(4, fused candidates) of them, never
\* more than 4, and none for a candidate outside the top 4.
C21_EnrichmentBounded ==
    \A r \in Requests : RetrievalReturned(r) =>
        LET values == Retr(r).combined_docs
            scores == Retr(r).scores
            queries == Retr(r).es_queries
            n == Len(values)
        IN  /\ Len(queries) <= 4
            /\ Len(queries) = (IF n < 4 THEN n ELSE 4)
            /\ \A j \in 1..Len(queries) :
                 queries[j] = EsQuery(values[PlaceInRanking(scores, j) + 1])

\* more than four fused candidates with scores of their own, four lookups,
\* and a candidate whose lookup no selected candidate shares
C21_Witness ==
    /\ RetrievalReturned("blocking")
    /\ Len(Retr("blocking").combined_docs) > 4
    /\ Len(Retr("blocking").es_queries) = 4
    /\ ext.es_index # <<>>
    /\ \E i \in 1..Len(Retr("blocking").combined_docs) :
          \A j \in 1..4 :
              Retr("blocking").es_queries[j] # EsQuery(Retr("blocking").combined_docs[i])

\* the store search of enrichment throws for a request that got that far
LookupThrows(r) ==
    /\ RetrievalInvoked(r)
    /\ ext.es_raises
    /\ ~ext.bm25_raises /\ ~ext.vector_raises
    /\ Get(state[r], "rewrites", <<>>) # <<>>
    /\ ext.vector_results # <<>> \/ docs_corpus # <<>>

\* C22 (enrichment is never fatal): when the store lookup of a reranked
\* candidate throws, no exception leaves the retrieval stage, and the stage
\* returns all reranked candidates, each one the original candidate unchanged.
C22_EnrichmentNeverFatal ==
    \A r \in Requests : LookupThrows(r) =>
        /\ exc[r] = "none"
        /\ RetrievalReturned(r)
        /\ state[r]["retrieved_docs"] = Retr(r).top_docs

\* the error of the store search ended the request, without retrieved_docs
C22_LookupErrorPropagates ==
    /\ LookupThrows("blocking")
    /\ exc["blocking"] = "StoreError" /\ pc["blocking"] = "raised"
    /\ "retrieved_docs" \notin DOMAIN state["blocking"]

(***************************************************************************)
(* The streaming entry point as its consumer sees it (Spec).               *)
(***************************************************************************)
\* the generator is suspended at a yield: it does nothing until the consumer
\* asks for the next event, which the consumer may never do
AtYield ==
    /\ events # <<>>
    /\ \/ pc["streaming"] \in {"qc_tool", "qc_done", "air_stream", "answered", "last_yield"}
       \/ pc["streaming"] = "tokens" /\ Last(events).type = "token"

\* the place of a stage in the pipeline, and of the stage that produced an event
StagePlace(stage) ==
    CASE stage = "classifier" -> 1
      [] stage \in {"air_quality_agent", "query_context"} -> 2
      [] stage = "specialized_retrieval" -> 3
      [] OTHER -> 4

EventPlace(e) ==
    CASE e.type \in {"tool", "query_context_done", "location_needed", "air_quality"} -> 2
      [] e.type = "done" /\ "answer" \in DOMAIN e -> 1
      [] OTHER -> 4

\* C23 (lazy streaming): while the streaming sequence waits for its consumer
\* after an event, no stage later than the one that produced the event has
\* been started; retrieval is invoked only after the consumer has pulled past
\* both expansion events, answer generation only after retrieval returned; the
\* sequence starts with the classifier and runs no stage twice.
C23_LazyStreaming ==
    LET r == "streaming" IN
    /\ AtYield =>
          \A stage \in Stages :
              StagePlace(stage) > EventPlace(Last(events)) => calls[r][stage] = 0
    /\ RetrievalInvoked(r) =>
          /\ Len(events) >= 2
          /\ events[1].type = "tool" /\ events[2].type = "query_context_done"
          /\ pc[r] \notin {"qc_tool", "qc_done"}
    /\ calls[r]["synthesis"] > 0 =>
          /\ calls[r]["specialized_retrieval"] = 1
          /\ "retrieved_docs" \in DOMAIN state[r]
    /\ (events # <<>> \/ \E stage \in Stages : calls[r][stage] > 0) =>
          calls[r]["classifier"] = 1
    /\ \A stage \in Stages : calls[r][stage] <= 1

\* the consumer holds the expander's last event and has not asked for more:
\* retrieval and synthesis have not run, although a consumer that went on
\* (the blocking call, same inputs) got an answer from both
C23_Witness ==
    /\ AtYield
    /\ pc["streaming"] = "qc_done"
    /\ Last(events).type = "query_context_done"
    /\ calls["streaming"]["query_context"] = 1
    /\ calls["streaming"]["specialized_retrieval"] = 0
    /\ calls["streaming"]["synthesis"] = 0
    /\ pc["blocking"] = "returned"
    /\ calls["blocking"]["specialized_retrieval"] = 1
    /\ calls["blocking"]["synthesis"] = 1

\* the consumer holds a token and the rest of the answer is still to come
C23_SuspendedAtToken ==
    /\ AtYield
    /\ pc["streaming"] = "tokens"
    /\ local["streaming"]["chunks"] # <<>>

(***************************************************************************)
(* Wrapped model output at the expander (SpecExpander).                    *)
(***************************************************************************)
\* the response holds a JSON object with both lists, inside a fence or prose
WrappedObject ==
    /\ ~ext.exp.raises
    /\ ext.exp.wrap \in {"fence", "prose"}
    /\ ext.exp.body.type = "object"
    /\ {"rewrites", "keywords"} \subseteq DOMAIN ext.exp.body.obj

\* x carries the lists of the object in the response
IsObjectOfResponse(x) ==
    /\ x.rewrites = ext.exp.body.obj.rewrites
    /\ x.keywords = ext.exp.body.obj.keywords

\* C24 (defensive JSON extraction): when the model's output is a JSON object
\* wrapped in a markdown code fence or surrounded by prose, the expander
\* returns that object's rewrites and keywords, in __call__, in the events
\* of stream and in the state the workflow builds from them, and not the
\* fallback values.
C24_DefensiveExtraction ==
    WrappedObject =>
        /\ DOMAIN node_out # {} => IsObjectOfResponse(node_out)
        /\ \A i \in 1..Len(events) :
              events[i].type \in {"tool", "query_context_done"} =>
                  IsObjectOfResponse(events[i])
        /\ \A r \in Requests : pc[r] = "expanded" => IsObjectOfResponse(state[r])

\* a fenced object, and the expander answered with the fallback values
C24_FencedObjectFallsBack ==
    /\ WrappedObject /\ ext.exp.wrap = "fence"
    /\ DOMAIN node_out # {}
    /\ IsFallback(node_out) /\ ~IsObjectOfResponse(node_out)
    /\ Len(events) = 2 /\ IsFallback(events[2])
    /\ pc["blocking"] = "expanded" /\ IsFallback(state["blocking"])

\* an object in prose, and the expander answered with the fallback values
C24_ObjectInProseFallsBack ==
    /\ WrappedObject /\ ext.exp.wrap = "prose"
    /\ DOMAIN node_out # {}
    /\ IsFallback(node_out) /\ ~IsObjectOfResponse(node_out)

\* the same object without wrapping is parsed
C24_BareObjectParsed ==
    (/\ ~ext.exp.raises
     /\ ext.exp.wrap = "none"
     /\ ext.exp.body.type = "object"
     /\ {"rewrites", "keywords"} \subseteq DOMAIN ext.exp.body.obj) =>
        /\ DOMAIN node_out # {} => IsObjectOfResponse(node_out)
        /\ \A r \in Requests : pc[r] = "expanded" => IsObjectOfResponse(state[r])

C24_BareObjectReached ==
    /\ ~ext.exp.raises /\ ext.exp.wrap = "none" /\ ext.exp.body.type = "object"
    /\ DOMAIN node_out # {}
    /\ node_out.rewrites = <<R1, R2, R3>> /\ node_out.keywords = <<K1, K2>>

(***************************************************************************)
(* Two requests side by side (Spec).                                       *)
(***************************************************************************)
\* a request run alone, from the inputs and the shared read-only objects
InitialState == [user_query |-> args.user_query, messages |-> <<>>]

ClassifiedState ==
    Put(InitialState, "query_type", CoerceLabel(ClassifierLabel(ext.cls.text)))

ExpandedState ==
    LET x == ParseExpansion(args.user_query, ext.exp)
    IN  Merge(ClassifiedState, [rewrites |-> x.rewrites, keywords |-> x.keywords])

RetrievalRaisesOn(st) ==
    \/ ext.bm25_raises
    \/ Get(st, "rewrites", <<>>) = <<>>
    \/ ext.vector_raises
    \/ ext.ce_raises /\ RetrievalLocals(st).combined_docs = <<>>
    \/ ext.es_raises /\ RetrievalLocals(st).top_docs # <<>>

RetrievedState ==
    Put(ExpandedState, "retrieved_docs", RetrievalLocals(ExpandedState).enriched_docs)

AloneReturns(res) ==
    [raised |-> FALSE, answer |-> Get(res, "answer", <<>>),
     sources |-> Get(res, "sources", <<>>)]

BlockingAlone ==
    IF ext.cls.raises \/ ClassifierIndexError(ext.cls.text) THEN [raised |-> TRUE]
    ELSE IF WorkflowBranch(ClassifiedState) = "air_quality"
    THEN (IF AirQualityRaises(ext.aq) THEN [raised |-> TRUE]
          ELSE AloneReturns(SynthesisCall(AirQualityCall(ClassifiedState, ext.aq))))
    ELSE IF WorkflowBranch(ClassifiedState) = "general"
    THEN (IF ext.exp.raises \/ RetrievalRaisesOn(ExpandedState) THEN [raised |-> TRUE]
          ELSE AloneReturns(SynthesisCall(RetrievedState)))
    ELSE AloneReturns([answer |-> SORRY, sources |-> <<>>])

ExpansionEvents ==
    LET x == ParseExpansion(args.user_query, ext.exp)
    IN  <<ToolEvent(x), QueryContextDoneEvent(x)>>

SynthesisEvents ==
    LET chunks == LLMStream("synthesis")
        sources == StreamingSources(RetrievedState)
    IN  (IF args.callback_handler THEN <<>>
         ELSE [i \in 1..Len(chunks) |-> [type |-> "token", token |-> chunks[i]]])
        \o <<[type |-> "answer", content |-> Concat(chunks), sources |-> sources],
             [type |-> "done", sources |-> sources]>>

StreamingAlone ==
    IF ext.cls.raises \/ ClassifierIndexError(ext.cls.text)
    THEN [raised |-> TRUE, events |-> <<>>]
    ELSE IF WorkflowBranch(ClassifiedState) = "air_quality"
    THEN (IF AirQualityRaises(ext.aq) THEN [raised |-> TRUE, events |-> <<>>]
          ELSE [raised |-> FALSE,
                events |-> AirQualityEvents(AirQualityCall(ClassifiedState, ext.aq))])
    ELSE IF WorkflowBranch(ClassifiedState) = "general"
    THEN (IF ext.exp.raises THEN [raised |-> TRUE, events |-> <<>>]
          ELSE IF RetrievalRaisesOn(ExpandedState)
          THEN [raised |-> TRUE, events |-> ExpansionEvents]
          ELSE [raised |-> FALSE, events |-> ExpansionEvents \o SynthesisEvents])
    ELSE [raised |-> FALSE,
          events |-> <<[type |-> "done", sources |-> <<>>, answer |-> SORRY]>>]

\* what a request has of its own
Own(r) == <<pc[r], state[r], local[r], exc[r], calls[r]>>

SameAsAlone ==
    /\ pc["blocking"] = "raised" => BlockingAlone.raised
    /\ pc["blocking"] = "returned" =>
          /\ ~BlockingAlone.raised
          /\ result.answer = BlockingAlone.answer
          /\ result.sources = BlockingAlone.sources
    /\ pc["streaming"] = "raised" =>
          StreamingAlone.raised /\ events = StreamingAlone.events
    /\ pc["streaming"] = "returned" =>
          ~StreamingAlone.raised /\ events = StreamingAlone.events

\* a step writes nothing of the other request and nothing that is shared
WritesOwnOnly ==
    /\ docs_corpus' = docs_corpus
    /\ ext' = ext
    /\ args' = args
    /\ Own("blocking")' # Own("blocking") =>
          /\ Own("streaming")' = Own("streaming")
          /\ events' = events /\ cb_log' = cb_log
    /\ Own("streaming")' # Own("streaming") =>
          /\ Own("blocking")' = Own("blocking")
          /\ result' = result

\* C25 (request independence): in every interleaving of the two requests no
\* step of one writes what the other has or reads, the corpus snapshot and
\* the shared handles are what they were at process start, and each request
\* ends with the result it gives when it runs alone.
C25_RequestIndependence == [](SameAsAlone) /\ [][WritesOwnOnly]_vars

\* both requests are done, and each had a dict of the corpus snapshot without
\* URL among the documents its source loop went through
C25_Witness ==
    /\ BothReturned
    /\ \A r \in Requests :
          /\ calls[r]["synthesis"] = 1
          /\ "retrieved_docs" \in DOMAIN state[r]
          /\ \E j \in 1..Len(state[r]["retrieved_docs"]) :
             \E i \in 1..Len(docs_corpus) :
                /\ state[r]["retrieved_docs"][j].oid = docs_corpus[i].oid
                /\ state[r]["retrieved_docs"][j] = docs_corpus[i]
                /\ docs_corpus[i].d.url = ""
    /\ \E i \in 1..Len(result.sources) : Get(result.sources[i], "url", NoneV) = "No URL"

(***************************************************************************)
(* The lexical leg (SpecRetrieval).                                        *)
(***************************************************************************)
\* C26 (lexical selection): the lexical candidates are the min(10, corpus
\* size) documents of the corpus with the highest scores, highest first,
\* equal scores in the order of the corpus, and no document twice.
C26_LexicalSelection ==
    \A r \in Requests : RetrievalReturned(r) =>
        LET L == Retr(r).bm25_docs
            n == Len(docs_corpus)
        IN  /\ Len(ext.bm25_scores) = n
            /\ Len(L) = (IF n < 10 THEN n ELSE 10)
            /\ \A j \in 1..Len(L) :
                 L[j] = docs_corpus[PlaceInRanking(ext.bm25_scores, j) + 1]
            /\ \A j, k \in 1..Len(L) : j # k => L[j].oid # L[k].oid

\* more than 10 documents, and a document left out whose score is that of the
\* last one kept
C26_Witness ==
    /\ RetrievalReturned("blocking")
    /\ Len(docs_corpus) > 10
    /\ Len(Retr("blocking").bm25_docs) = 10
    /\ \E i \in 1..Len(docs_corpus) :
          /\ \A j \in 1..10 : Retr("blocking").bm25_docs[j] # docs_corpus[i]
          /\ \E k \in 1..Len(docs_corpus) :
                /\ Retr("blocking").bm25_docs[10] = docs_corpus[k]
                /\ ext.bm25_scores[k] = ext.bm25_scores[i]
                /\ k < i
    /\ \E j \in 1..9 : \E k, i \in 1..Len(docs_corpus) :
          /\ Retr("blocking").bm25_docs[j] = docs_corpus[k]
          /\ Retr("blocking").bm25_docs[j + 1] = docs_corpus[i]
          /\ i < k

(***************************************************************************)
(* The retrieved documents across the source loop (SpecSynthesis).         *)
(***************************************************************************)
\* the document has a metadata dict of its own in which url or title is
\* missing or empty
LacksUrlOrTitle(doc) ==
    /\ doc.shape = "Document"
    /\ DOMAIN doc.metadata # {}
    /\ \/ Get(doc.metadata, "url", "") = ""
       \/ Get(doc.metadata, "title", "") = ""

\* C27 (source-list construction is read-only): no step of either synthesis
\* agent changes a retrieved document; the placeholders "No URL" and
\* "Untitled" are in the source entries only.
C27_SourceLoopReadOnly ==
    [][\A r \in Requests : state'[r]["retrieved_docs"] = state[r]["retrieved_docs"]]_vars

\* the blocking agent has returned and a retrieved Document carries a
\* placeholder that it did not carry before
C27_PlaceholderWritten ==
    /\ pc["blocking"] = "returned" /\ pc["streaming"] = "retrieved"
    /\ \E j \in 1..Len(state["blocking"]["retrieved_docs"]) :
          LET before == state["streaming"]["retrieved_docs"][j]
              after == state["blocking"]["retrieved_docs"][j]
          IN  /\ LacksUrlOrTitle(before)
              /\ after # before
              /\ \/ Get(after.metadata, "url", NoneV) = "No URL"
                 \/ Get(after.metadata, "title", NoneV) = "Untitled"

C27_StreamingPlaceholderWritten ==
    /\ pc["streaming"] = "tokens" /\ pc["blocking"] = "retrieved"
    /\ \E j \in 1..Len(state["streaming"]["retrieved_docs"]) :
          /\ LacksUrlOrTitle(state["blocking"]["retrieved_docs"][j])
          /\ state["streaming"]["retrieved_docs"][j]
                # state["blocking"]["retrieved_docs"][j]

\* every other document is left as it was: dicts of the corpus snapshot,
\* Documents without metadata, Documents with a url and a title
C27_OthersUnchanged ==
    [][\A r \in Requests :
          \A j \in 1..Len(state[r]["retrieved_docs"]) :
              ~LacksUrlOrTitle(state[r]["retrieved_docs"][j]) =>
                  state'[r]["retrieved_docs"][j] = state[r]["retrieved_docs"][j]]_vars

C27_OthersReached ==
    /\ pc["blocking"] = "returned"
    /\ \E j, k \in 1..Len(state["blocking"]["retrieved_docs"]) :
          /\ state["blocking"]["retrieved_docs"][j].shape = "dict"
          /\ state["blocking"]["retrieved_docs"][j].d.url = ""
          /\ state["blocking"]["retrieved_docs"][k].shape = "Document"

(***************************************************************************)
(* The label the workflow branches on (Spec).                              *)
(***************************************************************************)
\* the classifier was called and returned
ClassifierReturned(r) ==
    /\ pc[r] # "start"
    /\ ~(pc[r] = "raised" /\ \A stage \in Stages \ {"classifier"} : calls[r][stage] = 0)

\* C28 (label invariant): after the classifier has returned, query_type is
\* air_quality or general, so neither entry point takes its third branch: no
\* request ends without the air-quality agent or the expander having been
\* called, and the "Sorry, I could not classify your query." result and
\* event never appear.
C28_LabelInvariant ==
    \A r \in Requests :
        /\ ClassifierReturned(r) =>
              /\ "query_type" \in DOMAIN state[r]
              /\ state[r]["query_type"] \in {AIR_QUALITY, GENERAL}
              /\ pc[r] # "classified" =>
                    calls[r]["air_quality_agent"] + calls[r]["query_context"] = 1
        /\ (r = "blocking" /\ pc[r] = "returned") => result.answer # SORRY
        /\ r = "streaming" =>
              \A i \in 1..Len(events) : "answer" \notin DOMAIN events[i]

\* both requests got a label that is neither air_quality nor general from the
\* model and went through the general branch to the end
C28_Witness ==
    /\ ~ext.cls.raises
    /\ HasNonBlank(ext.cls.text)
    /\ FirstNonBlankLine(ext.cls.text) \notin {AIR_QUALITY, GENERAL}
    /\ BothReturned
    /\ \A r \in Requests :
          /\ state[r]["query_type"] = GENERAL
          /\ calls[r]["query_context"] = 1

(***************************************************************************)
(* The fragments of the streamed answer (Spec).                            *)
(***************************************************************************)
\* the fragments yielded as token events, and those handed to the callback
IsTokenEvent(e) == e.type = "token"
IsTokenCall(c) == c.call = "on_llm_new_token"
YieldedTokens ==
    LET es == SelectSeq(events, IsTokenEvent) IN [i \in 1..Len(es) |-> es[i].token]
CallbackTokens ==
    LET cs == SelectSeq(cb_log, IsTokenCall) IN [i \in 1..Len(cs) |-> cs[i].token]

IsPrefix(s, t) == Len(s) <= Len(t) /\ s = SubSeq(t, 1, Len(s))

\* C29 (token delivery): in the streaming synthesis every fragment of the
\* model is delivered once and in order, as token events when there is no
\* callback handler and through on_llm_new_token when there is one, never
\* both; the answer event has the concatenation of all fragments, follows
\* every token, and is followed at once by done with the same source list.
C29_TokenDelivery ==
    LET fragments == ext.llm["synthesis"] IN
    /\ IF args.callback_handler
       THEN YieldedTokens = <<>> /\ IsPrefix(CallbackTokens, fragments)
       ELSE CallbackTokens = <<>> /\ IsPrefix(YieldedTokens, fragments)
    /\ calls["streaming"]["synthesis"] > 0 =>
          \A i \in 1..Len(events) :
              /\ events[i].type = "answer" =>
                    /\ YieldedTokens \o CallbackTokens = fragments
                    /\ events[i].content = Concat(fragments)
                    /\ \A k \in 1..Len(events) : events[k].type = "token" => k < i
                    /\ i < Len(events) =>
                          /\ i + 1 = Len(events)
                          /\ events[i + 1] = [type |-> "done", sources |-> events[i].sources]
              /\ events[i].type = "done" => i > 1 /\ events[i - 1].type = "answer"
    /\ (Drained /\ calls["streaming"]["synthesis"] > 0) => Last(events).type = "done"

\* two equal fragments, yielded as two token events, then answer and done
C29_Witness ==
    /\ ~args.callback_handler
    /\ ext.llm["synthesis"] = <<FX, FX>>
    /\ Drained
    /\ YieldedTokens = <<FX, FX>>
    /\ Len(events) = 6
    /\ events[5].type = "answer" /\ events[5].content = FX \o FX
    /\ events[6].type = "done"

\* the same fragments with a callback handler: no token event
C29_CallbackReached ==
    /\ args.callback_handler
    /\ Drained
    /\ CallbackTokens = <<FX, FY>>
    /\ Len(events) = 4
    /\ events[3].type = "answer" /\ events[3].content = FX \o FY

(***************************************************************************)
(* What enrichment puts in place of a candidate (SpecRetrieval).           *)
(***************************************************************************)
\* rec is the chunk that the candidate c is: the candidate's url if it has
\* one, and its text or its chunk index
SameChunk(c, rec) ==
    /\ HasUrl(c) => CandidateUrl(rec) = CandidateUrl(c)
    /\ \/ ContentOf(rec) = ContentOf(c)
       \/ CandidateChunk(c) # NoneIdx /\ CandidateChunk(rec) = CandidateChunk(c)

\* C30 (enrichment preserves identity): a reranked candidate that enrichment
\* replaced by the store's record was replaced by its own chunk, so the text
\* that goes to synthesis is the text the reranker scored, for candidates of
\* the corpus snapshot as well.
C30_EnrichmentPreservesIdentity ==
    \A r \in Requests : RetrievalReturned(r) =>
        LET top == Retr(r).top_docs
            enriched == state[r]["retrieved_docs"]
        IN  \A j \in 1..Len(top) :
                enriched[j] # top[j] =>
                    /\ SameChunk(top[j], enriched[j])
                    /\ ContentOf(enriched[j]) = ContentOf(top[j])

\* a candidate of the snapshot, the second chunk of its page, was replaced by
\* the page's first chunk: other text, chunk index 0
C30_OtherChunkReturned ==
    /\ RetrievalReturned("blocking")
    /\ \E j \in 1..Len(Retr("blocking").top_docs) :
          LET c == Retr("blocking").top_docs[j]
              rec == state["blocking"]["retrieved_docs"][j]
          IN  /\ c.shape = "dict" /\ HasUrl(c)
              /\ rec.shape = "Document"
              /\ CandidateUrl(rec) = CandidateUrl(c)
              /\ ContentOf(rec) # ContentOf(c)
              /\ Retr("blocking").es_queries[j].kind = "term"
              /\ \E k \in 1..Len(ext.es_index) :
                    /\ ext.es_index[k].url = CandidateUrl(c)
                    /\ ext.es_index[k].content = ContentOf(c)

\* candidates that carry url and chunk index are replaced by their own chunk
C30_ChunkCandidatesKept ==
    \A r \in Requests : RetrievalReturned(r) =>
        LET top == Retr(r).top_docs
            enriched == state[r]["retrieved_docs"]
        IN  \A j \in 1..Len(top) :
                (enriched[j] # top[j] /\ HasUrl(top[j])
                    /\ CandidateChunk(top[j]) # NoneIdx) =>
                    /\ CandidateUrl(enriched[j]) = CandidateUrl(top[j])
                    /\ CandidateChunk(enriched[j]) = CandidateChunk(top[j])
                    /\ ContentOf(enriched[j]) = ContentOf(top[j])

C30_ChunkCandidateReplaced ==
    /\ RetrievalReturned("blocking")
    /\ \E j \in 1..Len(Retr("blocking").top_docs) :
          /\ HasUrl(Retr("blocking").top_docs[j])
          /\ CandidateChunk(Retr("blocking").top_docs[j]) = 1
          /\ state["blocking"]["retrieved_docs"][j] # Retr("blocking").top_docs[j]

=============================================================================
